---- MODULE Spec2Model ----
(***************************************************************************)
(* The Wi-Fi HAL session of src/unnamed/part_000: the event loop thread    *)
(* (wifi_event_loop, internal_valid_message_handler,                       *)
(* internal_cleaned_up_handler), the caller thread (wifi_cleanup and the   *)
(* API calls that fill the command and event registries) and the kernel    *)
(* side of the two sockets the loop polls.                                 *)
(***************************************************************************)
EXTENDS Integers, Sequences, FiniteSets, TLC

\* ------------------------------------------------------------- bounds
\* Command objects one run creates.
MaxCmds == 2
\* Datagrams that arrive on the event socket in one run.
MaxEvents == 1
\* Error conditions (poll failure, POLLERR, POLLHUP) raised in one run.
MaxConds == 1
MaxRegs == 2
\* Attributes in the vendor data of one reply.
MaxAttrs == 2

\* ---------------------------------------------------- symbolic values
NL80211_CMD_VENDOR == "NL80211_CMD_VENDOR"
NL80211_CMD_OTHER == "NL80211_CMD_OTHER"
GOOGLE_OUI == "GOOGLE_OUI"
OTHER_OUI == "OTHER_OUI"
WIFI_RSSI_REPORT_EVENT == "WIFI_RSSI_REPORT_EVENT"
WIFI_SUBSYSTEM_RESTART_EVENT == "WIFI_SUBSYSTEM_RESTART_EVENT"
NULL == "NULL"
\* The null WifiCommand pointer; command objects are numbered from 1.
NullCmd == 0
NoThread == "unlocked"
\* wifi_error
WIFI_SUCCESS == 0
WIFI_ERROR_UNKNOWN == 0 - 1
WIFI_ERROR_UNINITIALIZED == 0 - 2
WIFI_ERROR_NOT_SUPPORTED == 0 - 3
WIFI_ERROR_NOT_AVAILABLE == 0 - 4
WIFI_ERROR_INVALID_ARGS == 0 - 5

LoopThreads == {"L1", "L2"}
Caller == "C"
CmdObjs == 1..MaxCmds
\* The request id callers pass to wifi_start_rssi_monitoring (the restart
\* handler command always has id 0).
RequestIds == {1}

VARIABLES
    info,               \* hal_info: the session state
    objs,               \* the WifiCommand objects: kind, id, mRefs, state
    net,                \* kernel side: event socket queue, its condition, control socket
    pc,                 \* each thread's position
    lv,                 \* the locals of each thread inside wifi_event_loop
    cv,                 \* the locals of the caller thread
    reset_in_progress,  \* the flag behind set_reset_in_progress
    obs                 \* what an observer of the run has seen so far

vars == <<info, objs, net, pc, lv, cv, reset_in_progress, obs>>

\* ------------------------------------------------------------ messages
\* A received datagram: ok is the result of WifiEvent::parse, data whether it
\* carries a non-empty NL80211_ATTR_VENDOR_DATA attribute.
Malformed == [ok |-> FALSE, cmd |-> NULL, vendor_id |-> NULL, subcmd |-> NULL, data |-> FALSE]
VendorEvent(v, s) ==
    [ok |-> TRUE, cmd |-> NL80211_CMD_VENDOR, vendor_id |-> v, subcmd |-> s, data |-> TRUE]
EmptyVendorEvent(v, s) == [VendorEvent(v, s) EXCEPT !.data = FALSE]
PlainEvent(c) == [ok |-> TRUE, cmd |-> c, vendor_id |-> NULL, subcmd |-> NULL, data |-> FALSE]
Datagrams ==
    {Malformed, PlainEvent(NL80211_CMD_OTHER)}
    \cup {VendorEvent(GOOGLE_OUI, WIFI_RSSI_REPORT_EVENT),
          VendorEvent(GOOGLE_OUI, WIFI_SUBSYSTEM_RESTART_EVENT),
          VendorEvent(OTHER_OUI, WIFI_RSSI_REPORT_EVENT)}

\* A cb_info entry of info->event_cb.
CbInfo(c, v, s, f, a) ==
    [nl_cmd |-> c, vendor_id |-> v, vendor_subcmd |-> s, cb_func |-> f, cb_arg |-> a]
NoCbInfo == CbInfo(NULL, NULL, NULL, NULL, NullCmd)

\* The locals of a thread that is not dispatching.
NoLocals == [msg |-> Malformed, cbi |-> NoCbInfo, cb_func |-> NULL, cb_arg |-> NullCmd,
             cleaned_up_handler |-> NULL]

\* ------------------------------------------------------------- Init
\* The session as wifi_initialize leaves it; nLoop threads may call
\* wifi_event_loop and the caller may call wifi_cleanup nCleanup times.
InitInfo ==
    [cleaned_up_handler |-> NULL, cb_lock |-> NoThread, cmd |-> <<>>, event_cb |-> <<>>,
     clean_up |-> FALSE, in_event_loop |-> FALSE,
     cmd_sock |-> "open", event_sock |-> "open", cleanup_socks |-> "open", freed |-> FALSE]
NoObjs ==
    [c \in CmdObjs |->
        [kind |-> NULL, id |-> 0, mRefs |-> 0, state |-> "unborn", cancels |-> 0,
         handler |-> NULL]]
InitSession(loopers, nCleanup, cbs, cmds, os) ==
    /\ info = [InitInfo EXCEPT !.event_cb = cbs, !.cmd = cmds]
    /\ objs = os
    /\ net = [evq |-> <<>>, arrived |-> 0, cond |-> "none", conds |-> 0, ctrl |-> 0]
    /\ pc = [t \in LoopThreads \cup {Caller} |->
                IF t = Caller THEN "api" ELSE IF t \in loopers THEN "idle" ELSE "absent"]
    /\ lv = [t \in LoopThreads |-> NoLocals]
    /\ cv = [bad_commands |-> 0, num_cmd |-> 0, cmd |-> NullCmd, id |-> 0,
             cleanups_left |-> nCleanup, result |-> NULL, retest |-> FALSE]
    /\ reset_in_progress = 0
    /\ obs = [ub |-> FALSE, crashed |-> FALSE, cb_calls |-> 0, teardowns |-> 0,
              cleanups |-> 0, leak_log |-> <<>>]

InitFrom(loopers, nCleanup, cbs) == InitSession(loopers, nCleanup, cbs, <<>>, NoObjs)
InitWith(loopers, nCleanup) == InitFrom(loopers, nCleanup, <<>>)
Init == InitWith({"L1"}, 1)

\* ------------------------------------------------- WifiCommand objects
\* WifiCommand::addRef and WifiCommand::releaseRef: the object is destroyed
\* when its last reference is released.
addRef(os, c) == [os EXCEPT ![c].mRefs = @ + 1]
releaseRef(os, c) ==
    IF os[c].mRefs <= 1
    THEN [os EXCEPT ![c].mRefs = 0, ![c].state = "destroyed"]
    ELSE [os EXCEPT ![c].mRefs = @ - 1]

\* The object a created command occupies: the lowest one not yet used.
FreshObj ==
    CHOOSE c \in CmdObjs :
        objs[c].state = "unborn" /\ \A d \in CmdObjs : d < c => objs[d].state # "unborn"
HasFreshObj == \E c \in CmdObjs : objs[c].state = "unborn"
\* new WifiCommand(handle, id): constructed holding one reference; handler is
\* the on_subsystem_restart pointer a restart command is given.
NewCommandWith(os, c, kind, id, handler) ==
    [os EXCEPT ![c] = [kind |-> kind, id |-> id, mRefs |-> 1, state |-> "alive",
                       cancels |-> 0, handler |-> handler]]
NewCommand(os, c, kind, id) == NewCommandWith(os, c, kind, id, NULL)

\* A use of a command object that has been destroyed.
Dangling(c) == c # NullCmd /\ objs[c].state = "destroyed"

\* ------------------------------------------------------- the registries
\* The lowest index of a set of table indices, 0 when the set is empty: where
\* a scan from the start of the table stops.
FirstIndex(I) == IF I = {} THEN 0 ELSE CHOOSE i \in I : \A j \in I : i <= j
RemoveAt(s, i) == IF i = 0 THEN s ELSE SubSeq(s, 1, i - 1) \o SubSeq(s, i + 1, Len(s))

\* wifi_register_cmd, wifi_unregister_cmd: the table of outstanding commands.
RegisterCmd(tbl, id, c) == Append(tbl, [id |-> id, cmd |-> c])
UnregisterCmd(tbl, id) ==
    RemoveAt(tbl, FirstIndex({i \in 1..Len(tbl) : tbl[i].id = id}))

\* A registry that appends whatever it is given.
RegisterHandler_Append(cbs, c, v, s, f, a) == Append(cbs, CbInfo(c, v, s, f, a))
\* wifi_register_vendor_handler: one registration per signature, a second
\* registration of a signature that is present is rejected.
SameSignature(cbi, c, v, s) ==
    cbi.nl_cmd = c /\ cbi.vendor_id = v /\ cbi.vendor_subcmd = s
RegisterHandler(cbs, c, v, s, f, a) ==
    IF \E i \in 1..Len(cbs) : SameSignature(cbs[i], c, v, s)
    THEN cbs
    ELSE Append(cbs, CbInfo(c, v, s, f, a))
\* wifi_unregister_vendor_handler: removes the registration of the signature.
UnregisterVendorHandler(cbs, v, s) ==
    RemoveAt(cbs, FirstIndex({i \in 1..Len(cbs) :
                                 SameSignature(cbs[i], NL80211_CMD_VENDOR, v, s)}))

\* No thread takes a step once the process has died.
Alive == ~obs.crashed

\* A step that reads or writes *info records whether info had been freed.
Touch(o) == [o EXCEPT !.ub = @ \/ info.freed]
\* A step that calls into command c records whether c had been destroyed.
TouchCmd(o, c) == [o EXCEPT !.ub = @ \/ info.freed \/ Dangling(c)]
\* ------------------------------------------------------ the kernel side
\* A datagram arrives on the event socket.
ArriveUpTo(m, n) ==
    /\ Alive
    /\ net.arrived < n
    /\ net.cond # "hup"
    /\ net' = [net EXCEPT !.evq = Append(@, m), !.arrived = @ + 1]
    /\ UNCHANGED <<info, objs, pc, lv, cv, reset_in_progress, obs>>
Arrive(m) == ArriveUpTo(m, MaxEvents)

\* poll fails, or the event socket reports an error or a hang-up.
Condition(c) ==
    /\ Alive
    /\ net.conds < MaxConds
    /\ net.cond = "none"
    /\ net' = [net EXCEPT !.cond = c, !.conds = @ + 1]
    /\ UNCHANGED <<info, objs, pc, lv, cv, reset_in_progress, obs>>

\* ------------------------------------------------------ wifi_event_loop
\* An entry test that never finds the loop running.
Running_Never(flag) == FALSE
\* if (info->in_event_loop) return;
Running(flag) == flag
LoopEnter(t) ==
    /\ Alive
    /\ pc[t] = "idle"
    /\ pc' = [pc EXCEPT ![t] = IF Running(info.in_event_loop) THEN "returned" ELSE "set"]
    /\ obs' = Touch(obs)
    /\ UNCHANGED <<info, objs, net, lv, cv, reset_in_progress>>

\* else info->in_event_loop = true;
LoopSetRunning(t) ==
    /\ Alive
    /\ pc[t] = "set"
    /\ info' = [info EXCEPT !.in_event_loop = TRUE]
    /\ pc' = [pc EXCEPT ![t] = "poll"]
    /\ obs' = Touch(obs)
    /\ UNCHANGED <<objs, net, lv, cv, reset_in_progress>>

\* What poll reports, in the order the loop tests it; "blocked" while
\* nothing is ready.
PollResult ==
    IF net.cond = "pollfail" THEN "fail"
    ELSE IF net.cond = "err" THEN "POLLERR"
    ELSE IF net.cond = "hup" THEN "POLLHUP"
    ELSE IF net.evq # <<>> THEN "POLLIN"
    ELSE IF net.ctrl > 0 THEN "CTRL"
    ELSE "blocked"

\* A loop that breaks on POLLERR as it does on POLLHUP.
AfterCondition_ErrBreaks(r) == IF r \in {"POLLHUP", "POLLERR"} THEN "teardown" ELSE "check"
\* A failed poll and POLLERR are logged and the loop goes on to its test of
\* clean_up; POLLHUP breaks out of the loop.
AfterCondition(r) == IF r = "POLLHUP" THEN "teardown" ELSE "check"

\* A loop that gives up on the datagram it cannot parse.
AfterReceive_Abort(msg) == IF msg.ok THEN "lock" ELSE "teardown"
\* internal_valid_message_handler returns NL_SKIP when event.parse() fails,
\* and the loop ignores what internal_pollin_handler returns.
AfterReceive(msg) == IF msg.ok THEN "lock" ELSE "check"

\* One pass through the body of the do-while loop: on POLLIN the datagram is
\* received and parsed, and one that does not parse is skipped.
LoopPoll(t) ==
    /\ Alive
    /\ pc[t] = "poll"
    /\ PollResult # "blocked"
    /\ obs' = Touch(obs)
    /\ CASE PollResult \in {"fail", "POLLERR", "POLLHUP"} ->
              /\ net' = IF PollResult = "POLLHUP" THEN net ELSE [net EXCEPT !.cond = "none"]
              /\ pc' = [pc EXCEPT ![t] = AfterCondition(PollResult)]
              /\ lv' = lv
         [] PollResult = "POLLIN" ->
              /\ net' = [net EXCEPT !.evq = Tail(@)]
              /\ lv' = [lv EXCEPT ![t].msg = Head(net.evq)]
              /\ pc' = [pc EXCEPT ![t] = AfterReceive(Head(net.evq))]
         [] PollResult = "CTRL" ->
              /\ net' = [net EXCEPT !.ctrl = 0]
              /\ pc' = [pc EXCEPT ![t] = "check"]
              /\ lv' = lv
    /\ UNCHANGED <<info, objs, cv, reset_in_progress>>

\* } while (!info->clean_up);
LoopCheck(t) ==
    /\ Alive
    /\ pc[t] = "check"
    /\ pc' = [pc EXCEPT ![t] = IF info.clean_up THEN "teardown" ELSE "poll"]
    /\ obs' = Touch(obs)
    /\ UNCHANGED <<info, objs, net, lv, cv, reset_in_progress>>
\* --------------------------------------- internal_valid_message_handler
\* A scan test that forgets the vendor subcommand.
Matches_NoSubcmd(cbi, msg) ==
    /\ msg.cmd = cbi.nl_cmd
    /\ ~(msg.cmd = NL80211_CMD_VENDOR /\ msg.vendor_id # cbi.vendor_id)
\* The test of the scan loop: same message type and, for a vendor message,
\* same vendor id and same vendor subcommand.
Matches(cbi, msg) ==
    /\ msg.cmd = cbi.nl_cmd
    /\ ~(/\ msg.cmd = NL80211_CMD_VENDOR
         /\ (msg.vendor_id # cbi.vendor_id \/ msg.subcmd # cbi.vendor_subcmd))
\* A scan that stops at the last registration that matches.
MatchIndex_Last(cbs, msg) ==
    LET I == {i \in 1..Len(cbs) : Matches(cbs[i], msg)} IN
      IF I = {} THEN 0 ELSE CHOOSE i \in I : \A j \in I : j <= i
\* The registration the scan stops at: the first that matches, 0 when none does.
MatchIndex(cbs, msg) ==
    FirstIndex({i \in 1..Len(cbs) : Matches(cbs[i], msg)})
\* A dispatch that takes no reference to the matched command.
DispatchRef_None(os, c) == os
\* if (cmd != NULL) cmd->addRef();
DispatchRef(os, c) == IF c # NullCmd THEN addRef(os, c) ELSE os
\* A dispatch that calls the handler with cb_lock still held.
LockBeforeCall_Held(t) == t
\* The owner of cb_lock once a match is found and before cb_func is called.
LockBeforeCall(t) == NoThread

\* A scan that returns with cb_lock still held when nothing matched.
LockAfterScan_Held(t) == t
\* The owner of cb_lock when the scan has ended without a match.
LockAfterScan(t) == NoThread

\* pthread_mutex_lock(&info->cb_lock)
DispatchLock(t) ==
    /\ Alive
    /\ pc[t] = "lock"
    /\ info.cb_lock = NoThread
    /\ info' = [info EXCEPT !.cb_lock = t]
    /\ pc' = [pc EXCEPT ![t] = "scan"]
    /\ obs' = Touch(obs)
    /\ UNCHANGED <<objs, net, lv, cv, reset_in_progress>>

\* The handler of a command is its handleEvent; this registration is bound
\* to a SetSubsystemRestartHandlerCommand.
RestartHandler(cbi) ==
    cbi.cb_func # NULL /\ cbi.cb_arg # NullCmd /\ objs[cbi.cb_arg].kind = "restart"
\* SetSubsystemRestartHandlerCommand::handleEvent calls on_subsystem_restart
\* when the event carries vendor data and the pointer is set.
CallsRestartCallback(msg, handler) == msg.data /\ handler # NULL
\* A handleEvent that sets the flag whatever the event carries.
handleEvent_Always(flag, msg, handler) == 1
\* The reset-in-progress flag after SetSubsystemRestartHandlerCommand::handleEvent:
\* set before the callback is called, left alone when there is no call.
handleEvent(flag, msg, handler) ==
    IF CallsRestartCallback(msg, handler) THEN 1 ELSE flag

\* The scan of info->event_cb under cb_lock. Without a match the lock is
\* released and the datagram dropped. On the first match the command is
\* referenced, the lock released and cb_func, when set, called.
DispatchScan(t) ==
    /\ Alive
    /\ pc[t] = "scan"
    /\ LET i == MatchIndex(info.event_cb, lv[t].msg) IN
         IF i = 0
         THEN /\ info' = [info EXCEPT !.cb_lock = LockAfterScan(t)]
              /\ pc' = [pc EXCEPT ![t] = "check"]
              /\ obs' = Touch(obs)
              /\ UNCHANGED <<objs, lv, reset_in_progress>>
         ELSE LET cbi == info.event_cb[i] IN
              /\ lv' = [lv EXCEPT ![t].cbi = cbi, ![t].cb_func = cbi.cb_func,
                                  ![t].cb_arg = cbi.cb_arg]
              /\ objs' = DispatchRef(objs, cbi.cb_arg)
              /\ info' = [info EXCEPT !.cb_lock = LockBeforeCall(t)]
              /\ pc' = [pc EXCEPT ![t] = IF cbi.cb_func # NULL THEN "handler" ELSE "release"]
              /\ obs' = TouchCmd(obs, cbi.cb_arg)
              /\ UNCHANGED reset_in_progress
    /\ UNCHANGED <<net, cv>>

\* The handler runs, using the command it is bound to, and returns.
DispatchReturn(t) ==
    /\ Alive
    /\ pc[t] = "handler"
    /\ pc' = [pc EXCEPT ![t] = "release"]
    /\ obs' = [obs EXCEPT !.ub = @ \/ Dangling(lv[t].cb_arg)]
    /\ reset_in_progress' =
          IF RestartHandler(lv[t].cbi)
          THEN handleEvent(reset_in_progress, lv[t].msg, objs[lv[t].cb_arg].handler)
          ELSE reset_in_progress
    /\ UNCHANGED <<info, objs, net, lv, cv>>

\* if (cmd != NULL) cmd->releaseRef(); return NL_OK;
DispatchRelease(t) ==
    /\ Alive
    /\ pc[t] = "release"
    /\ objs' = IF lv[t].cb_arg # NullCmd THEN releaseRef(objs, lv[t].cb_arg) ELSE objs
    /\ obs' = [obs EXCEPT !.ub = @ \/ Dangling(lv[t].cb_arg)]
    /\ lv' = [lv EXCEPT ![t] = NoLocals]
    /\ pc' = [pc EXCEPT ![t] = "check"]
    /\ UNCHANGED <<info, net, cv, reset_in_progress>>

\* ------------------------------------------ internal_cleaned_up_handler
\* The handler is read, then the four sockets are released.
TeardownSockets(t) ==
    /\ Alive
    /\ pc[t] = "teardown"
    /\ lv' = [lv EXCEPT ![t].cleaned_up_handler = info.cleaned_up_handler]
    /\ info' = IF info.cmd_sock # NULL
               THEN [info EXCEPT !.cleanup_socks = "closed", !.cmd_sock = NULL,
                                 !.event_sock = NULL]
               ELSE info
    /\ obs' = [Touch(obs) EXCEPT !.teardowns = @ + 1]
    /\ pc' = [pc EXCEPT ![t] = "td_cb"]
    /\ UNCHANGED <<objs, net, cv, reset_in_progress>>

\* (*cleaned_up_handler)(handle)
TeardownCallback(t) ==
    /\ Alive
    /\ pc[t] = "td_cb"
    /\ lv[t].cleaned_up_handler # NULL
    /\ obs' = [obs EXCEPT !.cb_calls = @ + 1]
    /\ pc' = [pc EXCEPT ![t] = "td_free"]
    /\ UNCHANGED <<info, objs, net, lv, cv, reset_in_progress>>

\* pthread_mutex_destroy(&info->cb_lock); free(info);
TeardownFree(t) ==
    /\ Alive
    /\ pc[t] = "td_free"
    /\ info' = [info EXCEPT !.freed = TRUE]
    /\ obs' = [Touch(obs) EXCEPT !.ub = @ \/ info.freed \/ info.cb_lock # NoThread]
    /\ pc' = [pc EXCEPT ![t] = "stopped"]
    /\ UNCHANGED <<objs, net, lv, cv, reset_in_progress>>
\* ------------------------------------------------- the caller's API calls
\* The caller makes API calls until it calls wifi_cleanup.
CallerIdle == pc[Caller] = "api" /\ obs.cleanups = 0

\* wifi_start_rssi_monitoring: new SetRSSIMonitorCommand, wifi_register_cmd.
StartRssiRegister(id) ==
    /\ Alive
    /\ CallerIdle
    /\ HasFreshObj
    /\ info.cb_lock = NoThread
    /\ objs' = NewCommand(objs, FreshObj, "rssi", id)
    /\ info' = [info EXCEPT !.cmd = RegisterCmd(@, id, FreshObj)]
    /\ cv' = [cv EXCEPT !.cmd = FreshObj, !.id = id]
    /\ pc' = [pc EXCEPT ![Caller] = "rssi_start"]
    /\ obs' = Touch(obs)
    /\ UNCHANGED <<net, lv, reset_in_progress>>

\* SetRSSIMonitorCommand::start and the caller's test of its result: the
\* vendor handler is registered when the request succeeded, the command is
\* unregistered when it failed.
StartRssiStart(ok) ==
    /\ Alive
    /\ pc[Caller] = "rssi_start"
    /\ info.cb_lock = NoThread
    /\ info' = IF ok
               THEN [info EXCEPT !.event_cb =
                        RegisterHandler(@, NL80211_CMD_VENDOR, GOOGLE_OUI,
                                        WIFI_RSSI_REPORT_EVENT, "event_handler", cv.cmd)]
               ELSE [info EXCEPT !.cmd = UnregisterCmd(@, cv.id)]
    /\ cv' = [cv EXCEPT !.cmd = NullCmd, !.id = 0]
    /\ pc' = [pc EXCEPT ![Caller] = "api"]
    /\ obs' = TouchCmd(obs, cv.cmd)
    /\ UNCHANGED <<objs, net, lv, reset_in_progress>>

\* wifi_set_subsystem_restart_handler: new command with id 0, wifi_register_cmd.
RestartHandlers == {"on_subsystem_restart"}
SetRestartRegister(handler) ==
    /\ Alive
    /\ CallerIdle
    /\ HasFreshObj
    /\ info.cb_lock = NoThread
    /\ objs' = NewCommandWith(objs, FreshObj, "restart", 0, handler)
    /\ info' = [info EXCEPT !.cmd = RegisterCmd(@, 0, FreshObj)]
    /\ cv' = [cv EXCEPT !.cmd = FreshObj, !.id = 0]
    /\ pc' = [pc EXCEPT ![Caller] = "restart_start"]
    /\ obs' = Touch(obs)
    /\ UNCHANGED <<net, lv, reset_in_progress>>

\* SetSubsystemRestartHandlerCommand::start
SetRestartStart ==
    /\ Alive
    /\ pc[Caller] = "restart_start"
    /\ info.cb_lock = NoThread
    /\ reset_in_progress' = 0
    /\ info' = [info EXCEPT !.event_cb =
                  RegisterHandler(@, NL80211_CMD_VENDOR, GOOGLE_OUI,
                                  WIFI_SUBSYSTEM_RESTART_EVENT, "event_handler", cv.cmd)]
    /\ cv' = [cv EXCEPT !.cmd = NullCmd]
    /\ pc' = [pc EXCEPT ![Caller] = "api"]
    /\ obs' = TouchCmd(obs, cv.cmd)
    /\ UNCHANGED <<objs, net, lv>>

\* A signature another feature of the HAL subscribes to, with a handler that
\* is bound to no command.
StatelessSignatures == {<<NL80211_CMD_OTHER, NULL, NULL>>}
RegisterStateless(sig) ==
    /\ Alive
    /\ CallerIdle
    /\ info.cb_lock = NoThread
    /\ \A i \in 1..Len(info.event_cb) :
          ~SameSignature(info.event_cb[i], sig[1], sig[2], sig[3])
    /\ info' = [info EXCEPT !.event_cb =
                  RegisterHandler(@, sig[1], sig[2], sig[3], "stateless_handler", NullCmd)]
    /\ obs' = Touch(obs)
    /\ UNCHANGED <<objs, net, pc, lv, cv, reset_in_progress>>
\* --------------------------------------------------------- wifi_cleanup
\* info->cleaned_up_handler = handler;
CleanupCall ==
    /\ Alive
    /\ pc[Caller] = "api"
    /\ cv.cleanups_left > 0
    /\ info' = [info EXCEPT !.cleaned_up_handler = "handler"]
    /\ cv' = [cv EXCEPT !.cleanups_left = @ - 1]
    /\ obs' = [Touch(obs) EXCEPT !.cleanups = @ + 1]
    /\ pc' = [pc EXCEPT ![Caller] = "cl_lock"]
    /\ UNCHANGED <<objs, net, lv, reset_in_progress>>

\* pthread_mutex_lock(&info->cb_lock); int bad_commands = 0;
CleanupLock ==
    /\ Alive
    /\ pc[Caller] = "cl_lock"
    /\ info.cb_lock = NoThread
    /\ info' = [info EXCEPT !.cb_lock = Caller]
    /\ cv' = [cv EXCEPT !.bad_commands = 0]
    /\ pc' = [pc EXCEPT ![Caller] = "cl_loop"]
    /\ obs' = Touch(obs)
    /\ UNCHANGED <<objs, net, lv, reset_in_progress>>

\* A cancel loop that stops one entry short of the end of the table.
MoreCommands_OneShort(num_cmd, bad_commands) == num_cmd > bad_commands + 1
\* The test of the cancel loop.
MoreCommands(num_cmd, bad_commands) == num_cmd > bad_commands

\* A cancel loop that calls cancel() with cb_lock still held.
LockBeforeCancel_Held == Caller
\* The owner of cb_lock when cmd->cancel() is called.
LockBeforeCancel == NoThread

\* while (info->num_cmd > bad_commands): the next command is picked and
\* cb_lock is released for its cancel(); an entry without a command is
\* tested again, and retest tells one such iteration from the next.
CleanupPick ==
    /\ Alive
    /\ pc[Caller] = "cl_loop"
    /\ MoreCommands(Len(info.cmd), cv.bad_commands)
    /\ LET cmd == info.cmd[cv.bad_commands + 1].cmd IN
         /\ cv' = [cv EXCEPT !.num_cmd = Len(info.cmd), !.cmd = cmd,
                             !.retest = IF cmd = NullCmd THEN ~@ ELSE @]
         /\ IF cmd # NullCmd
            THEN /\ info' = [info EXCEPT !.cb_lock = LockBeforeCancel]
                 /\ pc' = [pc EXCEPT ![Caller] = "cl_cancel"]
            ELSE UNCHANGED <<info, pc>>
    /\ obs' = Touch(obs)
    /\ UNCHANGED <<objs, net, lv, reset_in_progress>>

\* cmd->cancel(): SetRSSIMonitorCommand::cancel sends the disable request and
\* unregisters its vendor handler whatever the reply;
\* SetSubsystemRestartHandlerCommand::cancel clears the reset-in-progress
\* flag and unregisters its vendor handler.
CancelSubcmd(kind) ==
    IF kind = "restart" THEN WIFI_SUBSYSTEM_RESTART_EVENT ELSE WIFI_RSSI_REPORT_EVENT
\* A cancel() that keeps the registration when the disable request failed.
CancelUnregisters_OnSuccess(kind, replyOk) == kind = "restart" \/ replyOk
\* Whether cancel() goes on to unregisterVendorHandler, given the outcome of
\* the request it sent: SetRSSIMonitorCommand::cancel only logs a failure.
CancelUnregisters(kind, replyOk) == TRUE
CleanupCancel(replyOk) ==
    /\ Alive
    /\ pc[Caller] = "cl_cancel"
    /\ info.cb_lock = NoThread
    /\ info' = IF CancelUnregisters(objs[cv.cmd].kind, replyOk)
               THEN [info EXCEPT !.event_cb =
                       UnregisterVendorHandler(@, GOOGLE_OUI, CancelSubcmd(objs[cv.cmd].kind))]
               ELSE info
    /\ reset_in_progress' = IF objs[cv.cmd].kind = "restart" THEN 0 ELSE reset_in_progress
    /\ objs' = [objs EXCEPT ![cv.cmd].cancels = @ + 1]
    /\ obs' = TouchCmd(obs, cv.cmd)
    /\ pc' = [pc EXCEPT ![Caller] = "cl_relock"]
    /\ UNCHANGED <<net, lv, cv>>

\* pthread_mutex_lock; cmd->releaseRef(); if (num_cmd == info->num_cmd) bad_commands++;
CleanupRelease ==
    /\ Alive
    /\ pc[Caller] = "cl_relock"
    /\ info.cb_lock = NoThread
    /\ info' = [info EXCEPT !.cb_lock = Caller]
    /\ objs' = releaseRef(objs, cv.cmd)
    /\ cv' = [cv EXCEPT !.bad_commands =
                 IF cv.num_cmd = Len(info.cmd) THEN @ + 1 ELSE @]
    /\ obs' = TouchCmd(obs, cv.cmd)
    /\ pc' = [pc EXCEPT ![Caller] = "cl_loop"]
    /\ UNCHANGED <<net, lv, reset_in_progress>>

\* The loop over info->event_cb that logs "Leaked command", then the unlock.
CleanupLeaks ==
    /\ Alive
    /\ pc[Caller] = "cl_loop"
    /\ ~MoreCommands(Len(info.cmd), cv.bad_commands)
    /\ obs' = [Touch(obs) EXCEPT !.leak_log =
                  [i \in 1..Len(info.event_cb) |-> info.event_cb[i].cb_arg]]
    /\ info' = [info EXCEPT !.cb_lock = NoThread]
    /\ cv' = [cv EXCEPT !.num_cmd = 0, !.cmd = NullCmd, !.bad_commands = 0]
    /\ pc' = [pc EXCEPT ![Caller] = "cl_signal"]
    /\ UNCHANGED <<objs, net, lv, reset_in_progress>>

\* A wifi_cleanup that leaves the flag alone.
SignalStop_None(i) == i
\* The flag the loop tests at the end of every iteration.
SignalStop(i) == [i EXCEPT !.clean_up = TRUE]
\* info->clean_up = true;
CleanupSignal ==
    /\ Alive
    /\ pc[Caller] = "cl_signal"
    /\ info' = SignalStop(info)
    /\ obs' = Touch(obs)
    /\ pc' = [pc EXCEPT ![Caller] = "cl_write"]
    /\ UNCHANGED <<objs, net, lv, cv, reset_in_progress>>

\* A write that leaves nothing to read on the other end of the socket pair.
Sentinel_Lost(n) == n
\* The four bytes "Exit" become readable on cleanup_socks[1].
Sentinel(n) == [n EXCEPT !.ctrl = @ + 1]
\* write(info->cleanup_socks[0], "Exit", 4), which fails on a closed socket;
\* then wifi_cleanup returns.
CleanupWrite ==
    /\ Alive
    /\ pc[Caller] = "cl_write"
    /\ net' = IF info.cleanup_socks = "open" THEN Sentinel(net) ELSE net
    /\ obs' = Touch(obs)
    /\ pc' = [pc EXCEPT ![Caller] = "api"]
    /\ UNCHANGED <<info, objs, lv, cv, reset_in_progress>>

\* -------------------------------------------- wifi_stop_rssi_monitoring
\* A wifi_stop_rssi_monitoring without the wildcard.
Wildcard_Never(id) == FALSE
\* if (id == -1)
Wildcard(id) == id = 0 - 1
\* wifi_stop_rssi_monitoring(id, iface): with the wildcard id a temporary
\* SetRSSIMonitorCommand is constructed, with any other id the call goes to
\* wifi_cancel_cmd.
StopRssiCall(id) ==
    /\ Alive
    /\ CallerIdle
    /\ IF Wildcard(id)
       THEN /\ HasFreshObj
            /\ objs' = NewCommand(objs, FreshObj, "rssi", id)
            /\ cv' = [cv EXCEPT !.cmd = FreshObj, !.id = id, !.result = NULL]
            /\ pc' = [pc EXCEPT ![Caller] = "stop_cancel"]
       ELSE /\ objs' = objs
            /\ cv' = [cv EXCEPT !.cmd = NullCmd, !.id = id, !.result = NULL]
            /\ pc' = [pc EXCEPT ![Caller] = "stop_delegate"]
    /\ UNCHANGED <<info, net, lv, reset_in_progress, obs>>

\* cmd->cancel(); cmd->releaseRef(); return WIFI_SUCCESS;
StopRssiCancel(replyOk) ==
    /\ Alive
    /\ pc[Caller] = "stop_cancel"
    /\ info.cb_lock = NoThread
    /\ info' = IF CancelUnregisters(objs[cv.cmd].kind, replyOk)
               THEN [info EXCEPT !.event_cb =
                       UnregisterVendorHandler(@, GOOGLE_OUI, CancelSubcmd(objs[cv.cmd].kind))]
               ELSE info
    /\ objs' = releaseRef([objs EXCEPT ![cv.cmd].cancels = @ + 1], cv.cmd)
    /\ cv' = [cv EXCEPT !.cmd = NullCmd, !.id = 0, !.result = WIFI_SUCCESS]
    /\ obs' = TouchCmd(obs, cv.cmd)
    /\ pc' = [pc EXCEPT ![Caller] = "api"]
    /\ UNCHANGED <<net, lv, reset_in_progress>>

\* wifi_cancel_cmd(id, iface): the command registered under the id is taken
\* out of the table, cancelled and released; without one the call fails.
StopRssiDelegate(replyOk) ==
    /\ Alive
    /\ pc[Caller] = "stop_delegate"
    /\ info.cb_lock = NoThread
    /\ LET i == FirstIndex({j \in 1..Len(info.cmd) : info.cmd[j].id = cv.id}) IN
         IF i = 0
         THEN /\ cv' = [cv EXCEPT !.id = 0, !.result = WIFI_ERROR_INVALID_ARGS]
              /\ obs' = Touch(obs)
              /\ UNCHANGED <<info, objs, reset_in_progress>>
         ELSE LET cmd == info.cmd[i].cmd
                  kind == objs[cmd].kind IN
              /\ info' = [info EXCEPT
                            !.cmd = UnregisterCmd(@, cv.id),
                            !.event_cb =
                               IF CancelUnregisters(kind, replyOk)
                               THEN UnregisterVendorHandler(@, GOOGLE_OUI, CancelSubcmd(kind))
                               ELSE @]
              /\ reset_in_progress' = IF kind = "restart" THEN 0 ELSE reset_in_progress
              /\ objs' = releaseRef([objs EXCEPT ![cmd].cancels = @ + 1], cmd)
              /\ cv' = [cv EXCEPT !.id = 0, !.result = WIFI_SUCCESS]
              /\ obs' = TouchCmd(obs, cmd)
    /\ pc' = [pc EXCEPT ![Caller] = "api"]
    /\ UNCHANGED <<net, lv>>

\* ------------------------------------------------------------ the process
\* A thread inside a function that uses *info.
InSession(t) == pc[t] \notin {"api", "idle", "absent", "returned", "stopped", "handler"}
\* The process dies: a call through the null cleaned_up_handler, or a use
\* of *info after free(info).
Crash ==
    /\ Alive
    /\ \/ \E t \in LoopThreads : pc[t] = "td_cb" /\ lv[t].cleaned_up_handler = NULL
       \/ \E t \in LoopThreads \cup {Caller} : info.freed /\ InSession(t)
    /\ obs' = [obs EXCEPT !.crashed = TRUE, !.ub = TRUE]
    /\ UNCHANGED <<info, objs, net, pc, lv, cv, reset_in_progress>>

Next ==
    \/ \E t \in LoopThreads : LoopEnter(t)
    \/ \E t \in LoopThreads : LoopSetRunning(t)
    \/ \E t \in LoopThreads : LoopPoll(t)
    \/ \E t \in LoopThreads : LoopCheck(t)
    \/ \E t \in LoopThreads : DispatchLock(t)
    \/ \E t \in LoopThreads : DispatchScan(t)
    \/ \E t \in LoopThreads : DispatchReturn(t)
    \/ \E t \in LoopThreads : DispatchRelease(t)
    \/ \E t \in LoopThreads : TeardownSockets(t)
    \/ \E t \in LoopThreads : TeardownCallback(t)
    \/ \E t \in LoopThreads : TeardownFree(t)
    \/ \E id \in RequestIds : StartRssiRegister(id)
    \/ \E ok \in BOOLEAN : StartRssiStart(ok)
    \/ \E h \in RestartHandlers : SetRestartRegister(h)
    \/ SetRestartStart
    \/ \E sig \in StatelessSignatures : RegisterStateless(sig)
    \/ CleanupCall
    \/ CleanupLock
    \/ CleanupPick
    \/ \E replyOk \in BOOLEAN : CleanupCancel(replyOk)
    \/ CleanupRelease
    \/ CleanupLeaks
    \/ CleanupSignal
    \/ CleanupWrite
    \/ \E m \in Datagrams : Arrive(m)
    \/ \E c \in {"pollfail", "err", "hup"} : Condition(c)
    \/ Crash

\* One thread runs the event loop and the caller calls wifi_cleanup once.
Spec == Init /\ [][Next]_vars

\* The scheduler lets a thread that is inside wifi_event_loop or inside
\* wifi_cleanup, and not blocked, take its next step. Calling either function
\* is up to the client.
LoopStep(t) ==
    \/ LoopSetRunning(t) \/ LoopPoll(t) \/ LoopCheck(t)
    \/ DispatchLock(t) \/ DispatchScan(t) \/ DispatchReturn(t) \/ DispatchRelease(t)
    \/ TeardownSockets(t) \/ TeardownCallback(t) \/ TeardownFree(t)
CleanupStep ==
    \/ CleanupLock \/ CleanupPick \/ (\E replyOk \in BOOLEAN : CleanupCancel(replyOk))
    \/ CleanupRelease
    \/ CleanupLeaks \/ CleanupSignal \/ CleanupWrite
Fairness == WF_vars(CleanupStep) /\ \A t \in LoopThreads : WF_vars(LoopStep(t))
FairSpec == Spec /\ Fairness

\* The caller calls wifi_cleanup a second time.
InitTwice == InitWith({"L1"}, 2)
SpecTwice == InitTwice /\ [][Next]_vars

\* Two threads call wifi_event_loop on the same session.
InitTwoLoops == InitWith({"L1", "L2"}, 1)

\* The client alone: no thread runs the event loop, and RSSI monitors are
\* started under two request ids, one of them the id 0 that
\* wifi_set_subsystem_restart_handler gives its command.
ApiRequestIds == {0, 1}
StopIds == ApiRequestIds \cup {0 - 1}
InitApi == InitWith({}, 1)
NextApi ==
    \/ \E id \in ApiRequestIds : StartRssiRegister(id)
    \/ \E ok \in BOOLEAN : StartRssiStart(ok)
    \/ \E id \in StopIds : StopRssiCall(id)
    \/ \E replyOk \in BOOLEAN : StopRssiCancel(replyOk)
    \/ \E replyOk \in BOOLEAN : StopRssiDelegate(replyOk)
    \/ \E h \in RestartHandlers : SetRestartRegister(h)
    \/ SetRestartStart
    \/ \E sig \in StatelessSignatures : RegisterStateless(sig)
    \/ CleanupCall
    \/ CleanupLock
    \/ CleanupPick
    \/ \E replyOk \in BOOLEAN : CleanupCancel(replyOk)
    \/ CleanupRelease
    \/ CleanupLeaks
    \/ CleanupSignal
    \/ CleanupWrite
SpecApi == InitApi /\ [][NextApi]_vars

\* The event loop dispatches over a table of registrations left by earlier
\* calls of wifi_register_handler and wifi_register_vendor_handler, which are
\* not part of the code at hand: any table of up to MaxRegs registrations
\* without a command, two registrations of one signature included.
ScanSignatures ==
    {<<NL80211_CMD_OTHER, NULL, NULL>>,
     <<NL80211_CMD_VENDOR, GOOGLE_OUI, WIFI_RSSI_REPORT_EVENT>>,
     <<NL80211_CMD_VENDOR, GOOGLE_OUI, WIFI_SUBSYSTEM_RESTART_EVENT>>}
ScanEntries ==
    {CbInfo(sig[1], sig[2], sig[3], f, NullCmd) : sig \in ScanSignatures, f \in {"h1", "h2"}}
ScanTables == UNION {[1..n -> ScanEntries] : n \in 0..MaxRegs}
InitScan == \E cbs \in ScanTables : InitFrom({"L1"}, 0, cbs)
NextScan ==
    \/ \E t \in LoopThreads : LoopEnter(t)
    \/ \E t \in LoopThreads : LoopSetRunning(t)
    \/ \E t \in LoopThreads : LoopPoll(t)
    \/ \E t \in LoopThreads : LoopCheck(t)
    \/ \E t \in LoopThreads : DispatchLock(t)
    \/ \E t \in LoopThreads : DispatchScan(t)
    \/ \E t \in LoopThreads : DispatchReturn(t)
    \/ \E t \in LoopThreads : DispatchRelease(t)
    \/ \E m \in Datagrams : Arrive(m)
SpecScan == InitScan /\ [][NextScan]_vars

\* Two threads call wifi_event_loop on a session whose client creates no
\* command: the steps of Next that need none.
NextNoCommands ==
    \/ \E t \in LoopThreads : LoopEnter(t)
    \/ \E t \in LoopThreads : LoopSetRunning(t)
    \/ \E t \in LoopThreads : LoopPoll(t)
    \/ \E t \in LoopThreads : LoopCheck(t)
    \/ \E t \in LoopThreads : DispatchLock(t)
    \/ \E t \in LoopThreads : DispatchScan(t)
    \/ \E t \in LoopThreads : DispatchReturn(t)
    \/ \E t \in LoopThreads : DispatchRelease(t)
    \/ \E t \in LoopThreads : TeardownSockets(t)
    \/ \E t \in LoopThreads : TeardownCallback(t)
    \/ \E t \in LoopThreads : TeardownFree(t)
    \/ \E sig \in StatelessSignatures : RegisterStateless(sig)
    \/ CleanupCall
    \/ CleanupLock
    \/ CleanupLeaks
    \/ CleanupSignal
    \/ CleanupWrite
    \/ \E m \in Datagrams : Arrive(m)
    \/ \E c \in {"pollfail", "err", "hup"} : Condition(c)
    \/ Crash
SpecLoopEntry == InitTwoLoops /\ [][NextNoCommands]_vars

\* The subsystem-restart handler alone: the client sets the handler, with the
\* on_subsystem_restart pointer set or null, restart events arrive with and
\* without vendor data, one more of them than MaxEvents so that a restart
\* event can follow another, and the client calls wifi_cleanup.
RestartDatagrams ==
    {VendorEvent(GOOGLE_OUI, WIFI_SUBSYSTEM_RESTART_EVENT),
     EmptyVendorEvent(GOOGLE_OUI, WIFI_SUBSYSTEM_RESTART_EVENT)}
RestartPointers == {NULL, "on_subsystem_restart"}
InitRestart == InitWith({"L1"}, 1)
NextRestart ==
    \/ \E t \in LoopThreads : LoopEnter(t)
    \/ \E t \in LoopThreads : LoopSetRunning(t)
    \/ \E t \in LoopThreads : LoopPoll(t)
    \/ \E t \in LoopThreads : LoopCheck(t)
    \/ \E t \in LoopThreads : DispatchLock(t)
    \/ \E t \in LoopThreads : DispatchScan(t)
    \/ \E t \in LoopThreads : DispatchReturn(t)
    \/ \E t \in LoopThreads : DispatchRelease(t)
    \/ \E t \in LoopThreads : TeardownSockets(t)
    \/ \E t \in LoopThreads : TeardownCallback(t)
    \/ \E t \in LoopThreads : TeardownFree(t)
    \/ \E h \in RestartPointers : SetRestartRegister(h)
    \/ SetRestartStart
    \/ CleanupCall
    \/ CleanupLock
    \/ CleanupPick
    \/ \E replyOk \in BOOLEAN : CleanupCancel(replyOk)
    \/ CleanupRelease
    \/ CleanupLeaks
    \/ CleanupSignal
    \/ CleanupWrite
    \/ \E m \in RestartDatagrams : ArriveUpTo(m, MaxEvents + 1)
    \/ Crash
SpecRestart == InitRestart /\ [][NextRestart]_vars

\* wifi_cleanup alone, over a command table left by earlier calls of
\* wifi_register_cmd, which is not part of the code at hand: any table of up
\* to MaxCmds entries, each holding a monitor command, a restart command or
\* no command at all; entry i holds object i with the one reference the
\* table keeps. A thread inside wifi_cleanup takes its next step.
CancelTables == UNION {[1..n -> {NULL, "rssi", "restart"}] : n \in 0..MaxCmds}
InitCancel ==
    \E slots \in CancelTables :
        LET cmds == [i \in 1..Len(slots) |->
                       [id |-> i, cmd |-> IF slots[i] = NULL THEN NullCmd ELSE i]]
            os == [c \in CmdObjs |->
                     IF c <= Len(slots) /\ slots[c] # NULL
                     THEN [NoObjs[c] EXCEPT !.kind = slots[c], !.id = c,
                                            !.mRefs = 1, !.state = "alive"]
                     ELSE NoObjs[c]]
        IN  InitSession({}, 1, <<>>, cmds, os)
NextCancel ==
    \/ CleanupCall
    \/ CleanupLock
    \/ CleanupPick
    \/ \E replyOk \in BOOLEAN : CleanupCancel(replyOk)
    \/ CleanupRelease
    \/ CleanupLeaks
    \/ CleanupSignal
    \/ CleanupWrite
SpecCancel == InitCancel /\ [][NextCancel]_vars /\ WF_vars(CleanupStep)

\* ------------------------------------------------------- wifi_initialize
WIFI_HAL_CMD_SOCK_PORT == 644
WIFI_HAL_EVENT_SOCK_PORT == 645

\* A uint32_t, kept as two 16-bit halves; ovf records that a bit was lost
\* on the way to it. n is a non-negative int.
Half == 65536
U32(n) == [hi |-> (n \div Half) % Half, lo |-> n % Half, ovf |-> FALSE]
\* port << 22 on a uint32_t: port * 2^6 lands in the high half.
ShiftLeft22(port) == [hi |-> (port * 64) % Half, lo |-> 0, ovf |-> port * 64 >= Half]
\* a + b on uint32_t.
Add32(a, b) ==
    LET lo == a.lo + b.lo
        hi == a.hi + b.hi + (lo \div Half)
    IN [hi |-> hi % Half, lo |-> lo % Half, ovf |-> a.ovf \/ b.ovf \/ hi >= Half]
\* getpid() & 0x3FFFFF
PidMask == 4194303
MaskedPid(pid) == pid % (PidMask + 1)
\* A port derivation that adds the whole pid.
LocalPort_Unmasked(pid, port) == Add32(U32(pid), ShiftLeft22(port))
\* wifi_socket_set_local_port: pid + (port << 22)
LocalPort(pid, port) == Add32(U32(MaskedPid(pid)), ShiftLeft22(port))
NoPort == U32(0)

\* The process ids wifi_initialize is run under: small ones, the ones around
\* 2^22 and the largest pid_t.
Pids == {1, 2, PidMask, PidMask + 1, PidMask + 2, 2147483647}
\* The multicast groups, in the order wifi_initialize adds them.
Groups == <<"scan", "mlme", "regulatory", "vendor">>
\* What wifi_create_nl_socket and wifi_add_membership can come back with.
SocketOutcomes == {"ok", "alloc_failed", "connect_failed"}
MembershipOutcomes == {"ok", "unresolved", "join_failed"}

\* A wifi_initialize that goes on when the family cannot be resolved.
Fatal_NotFamily(step) ==
    step \in {"malloc", "socketpair", "cmd_sock", "event_sock", "ioctl_sock", "cb"}
\* The steps of wifi_initialize whose failure makes it return
\* WIFI_ERROR_UNKNOWN; the result of wifi_add_membership is not looked at.
Fatal(step) ==
    step \in {"malloc", "socketpair", "cmd_sock", "event_sock", "ioctl_sock", "cb", "family"}
\* What wifi_initialize releases before it returns from a failed step.
ReleasedOnFailure(step) ==
    CASE step = "malloc" -> {}
      [] step = "socketpair" -> {"info"}
      [] step = "cmd_sock" -> {"info"}
      [] step = "event_sock" -> {"cmd_sock", "info"}
      [] step = "ioctl_sock" -> {}
      [] step = "cb" -> {"cmd_sock", "event_sock", "info"}
      [] step = "family" -> {"cmd_sock", "event_sock", "info"}

\* hal_info after memset(info, 0, sizeof(*info)).
ZeroedInfo ==
    [cleaned_up_handler |-> NULL, cb_lock |-> NoThread, cmd |-> <<>>, event_cb |-> <<>>,
     clean_up |-> FALSE, in_event_loop |-> FALSE,
     cmd_sock |-> NULL, event_sock |-> NULL, cleanup_socks |-> "closed", freed |-> FALSE]
\* The caller is about to call wifi_initialize in a process with one of the
\* pids: net is the kernel and the heap (what the process holds, the ports
\* its netlink sockets are bound to, the groups the event socket is a member
\* of, the steps that failed), cv the locals and the output parameter.
InitInitialize ==
    \E pid \in Pids :
        /\ info = ZeroedInfo
        /\ objs = [c \in CmdObjs |->
                    [kind |-> NULL, id |-> 0, mRefs |-> 0, state |-> "unborn", cancels |-> 0,
                     handler |-> NULL]]
        /\ net = [pid |-> pid, held |-> {}, cmd_port |-> NoPort, event_port |-> NoPort,
                  members |-> {}, failed |-> {}]
        /\ pc = [t \in LoopThreads \cup {Caller} |->
                    IF t = Caller THEN "init_malloc" ELSE "absent"]
        /\ lv = [t \in LoopThreads |-> NoLocals]
        /\ cv = [handle |-> NULL, result |-> NULL, group |-> 1]
        /\ reset_in_progress = 0
        /\ obs = [ub |-> FALSE, crashed |-> FALSE, cb_calls |-> 0, teardowns |-> 0,
                  cleanups |-> 0, leak_log |-> <<>>]

\* One step of wifi_initialize: it acquires what the step is for and goes
\* on, or the step fails; a failure that is fatal releases what the code
\* releases there and returns WIFI_ERROR_UNKNOWN.
InitStep(step, next, ok, acquired, newInfo, newNet, newCv) ==
    /\ pc[Caller] = "init_" \o step
    /\ IF ok
       THEN /\ net' = [newNet EXCEPT !.held = @ \cup acquired]
            /\ info' = newInfo
            /\ pc' = [pc EXCEPT ![Caller] = "init_" \o next]
            /\ cv' = newCv
       ELSE IF Fatal(step)
       THEN /\ net' = [net EXCEPT !.held = @ \ ReleasedOnFailure(step),
                                  !.failed = @ \cup {step}]
            /\ info' = IF "info" \in ReleasedOnFailure(step)
                       THEN [info EXCEPT !.freed = TRUE] ELSE info
            /\ pc' = [pc EXCEPT ![Caller] = "init_returned"]
            /\ cv' = [cv EXCEPT !.result = WIFI_ERROR_UNKNOWN]
       ELSE /\ net' = [net EXCEPT !.failed = @ \cup {step}]
            /\ info' = info
            /\ pc' = [pc EXCEPT ![Caller] = "init_" \o next]
            /\ cv' = cv
    /\ UNCHANGED <<objs, lv, reset_in_progress, obs>>

\* malloc(sizeof(hal_info)) and memset
InitMalloc(ok) == InitStep("malloc", "socketpair", ok, {"info"}, info, net, cv)
\* socketpair(AF_UNIX, SOCK_STREAM, 0, info->cleanup_socks)
InitSocketpair(ok) ==
    InitStep("socketpair", "cmd_sock", ok, {"cleanup_socks"},
             [info EXCEPT !.cleanup_socks = "open"], net, cv)
\* wifi_create_nl_socket: a socket that cannot connect is freed again, after
\* its local port has been set.
InitCmdSock(outcome) ==
    InitStep("cmd_sock", "event_sock", outcome = "ok", {"cmd_sock"}, info,
             [net EXCEPT !.cmd_port = LocalPort(net.pid, WIFI_HAL_CMD_SOCK_PORT)], cv)
InitEventSock(outcome) ==
    InitStep("event_sock", "ioctl_sock", outcome = "ok", {"event_sock"}, info,
             [net EXCEPT !.event_port = LocalPort(net.pid, WIFI_HAL_EVENT_SOCK_PORT)], cv)
\* socket(PF_INET, SOCK_DGRAM, 0)
InitIoctlSock(ok) == InitStep("ioctl_sock", "cb", ok, {"ioctl_sock"}, info, net, cv)
\* nl_socket_get_cb, nl_cb_set, and the assignments to *info, the two
\* registry tables included.
InitCb(ok) ==
    InitStep("cb", "family", ok, {"event_cb", "cmd"},
             [info EXCEPT !.cmd_sock = "open", !.event_sock = "open",
                          !.clean_up = FALSE, !.in_event_loop = FALSE], net, cv)
\* genl_ctrl_resolve(cmd_sock, "nl80211"), pthread_mutex_init and
\* *handle = (wifi_handle) info
InitFamily(ok) ==
    InitStep("family", "groups", ok, {}, info, net, [cv EXCEPT !.handle = "info"])
\* wifi_add_membership(*handle, group): the event socket becomes a member
\* when the group id is found and nl_socket_add_membership succeeds.
InitAddMembership(outcome) ==
    /\ pc[Caller] = "init_groups"
    /\ net' = IF outcome = "ok"
              THEN [net EXCEPT !.members = @ \cup {Groups[cv.group]}]
              ELSE [net EXCEPT !.failed = @ \cup {Groups[cv.group]}]
    /\ cv' = [cv EXCEPT !.group = @ + 1]
    /\ pc' = [pc EXCEPT ![Caller] =
                IF Fatal("membership") /\ outcome # "ok" THEN "init_returned"
                ELSE IF cv.group = Len(Groups) THEN "init_interfaces" ELSE "init_groups"]
    /\ UNCHANGED <<info, objs, lv, reset_in_progress, obs>>
\* wifi_init_interfaces(*handle), the log line and return WIFI_SUCCESS
InitReturn ==
    /\ pc[Caller] = "init_interfaces"
    /\ cv' = [cv EXCEPT !.result = WIFI_SUCCESS]
    /\ pc' = [pc EXCEPT ![Caller] = "init_returned"]
    /\ UNCHANGED <<info, objs, net, lv, reset_in_progress, obs>>

NextInitialize ==
    \/ \E ok \in BOOLEAN : InitMalloc(ok)
    \/ \E ok \in BOOLEAN : InitSocketpair(ok)
    \/ \E outcome \in SocketOutcomes : InitCmdSock(outcome)
    \/ \E outcome \in SocketOutcomes : InitEventSock(outcome)
    \/ \E ok \in BOOLEAN : InitIoctlSock(ok)
    \/ \E ok \in BOOLEAN : InitCb(ok)
    \/ \E ok \in BOOLEAN : InitFamily(ok)
    \/ \E outcome \in MembershipOutcomes : InitAddMembership(outcome)
    \/ InitReturn
SpecInitialize == InitInitialize /\ [][NextInitialize]_vars


\* ------------------------------------------- request/response commands
\* errno values requestResponse hands back negated.
EPERM == 1
ENOMEM == 12
\* What requestResponse returns: success, permission denied, other errors,
\* and a positive value.
RequestResults == {WIFI_SUCCESS, 0 - EPERM, WIFI_ERROR_NOT_AVAILABLE, 0 - ENOMEM, 1}
\* What WifiRequest::create and the put_ functions return.
PutResults == {0, 0 - ENOMEM}

\* The request builders of the file: how many attributes each puts between
\* attr_start and attr_end (nested is false for a builder that only creates
\* the message), and who hands the message to requestResponse: a start() or
\* cancel() that tests the builder's result first, or
\* WifiCommand::requestResponse(), which calls create() itself.
Builder(puts, nested, sender) == [puts |-> puts, nested |-> nested, sender |-> sender]
Builders ==
    [apf_set |-> Builder(2, TRUE, "start_negative"),
     apf_get |-> Builder(0, FALSE, "start_negative"),
     nd_offload |-> Builder(1, TRUE, "requestResponse"),
     pno_oui |-> Builder(1, TRUE, "start_not_success"),
     nodfs |-> Builder(1, TRUE, "requestResponse"),
     rssi_start |-> Builder(3, TRUE, "start_negative"),
     rssi_cancel |-> Builder(3, TRUE, "start_not_success"),
     country_code |-> Builder(1, TRUE, "requestResponse"),
     latency_mode |-> Builder(1, TRUE, "requestResponse"),
     usable_channels |-> Builder(4, TRUE, "requestResponse")]
Apis == DOMAIN Builders

\* A builder that goes on after a put that failed.
PutFailed_Never(ret) == FALSE
\* if (result < 0) return result; after every put
PutFailed(ret) == ret < 0
\* WifiCommand::requestResponse(): builds the request with create() and
\* sends it when that did not fail.
IssueSends(result) == ~(result < 0)
\* Whether the message is handed to requestResponse, given what its builder
\* returned: start() of the packet filter and of the RSSI monitor returns on
\* a negative result, start() of the PNO OUI command and cancel() of the RSSI
\* monitor on any result but WIFI_SUCCESS.
Sends(sender, result) ==
    CASE sender = "start_negative" -> ~(result < 0)
      [] sender = "start_not_success" -> result = WIFI_SUCCESS
      [] sender = "requestResponse" -> IssueSends(result)
\* What a builder returns when WifiRequest::create fails.
CreateFailure(api, ret) == IF api = "nd_offload" THEN WIFI_ERROR_NOT_AVAILABLE ELSE ret

\* A reply: its command and the attributes of its vendor data.
APF_ATTRIBUTE_VERSION == "APF_ATTRIBUTE_VERSION"
APF_ATTRIBUTE_MAX_LEN == "APF_ATTRIBUTE_MAX_LEN"
APF_ATTRIBUTE_OTHER == "APF_ATTRIBUTE_OTHER"
AttrTypes == {APF_ATTRIBUTE_VERSION, APF_ATTRIBUTE_MAX_LEN, APF_ATTRIBUTE_OTHER}
AttrValues == {0, 3, 2048}
Attrs == [type : AttrTypes, value : AttrValues]
AttrSeqs == UNION {[1..n -> Attrs] : n \in 0..MaxAttrs}
Replies == [cmd : {NL80211_CMD_VENDOR, NL80211_CMD_OTHER}, attrs : AttrSeqs]
\* Only the reply to get-capabilities is decoded in what is modelled here;
\* the other commands are given one reply without attributes.
RepliesTo(api) ==
    IF api = "apf_get" THEN Replies ELSE {[cmd |-> NL80211_CMD_VENDOR, attrs |-> <<>>]}
\* The value the caller's *version and *max_len hold before the call.
Unset == 99

\* A loop that keeps the first value it finds for an output.
CapabilitiesStep_First(out, attr) ==
    IF attr.type = APF_ATTRIBUTE_VERSION /\ out.version = 0
    THEN [out EXCEPT !.version = attr.value]
    ELSE IF attr.type = APF_ATTRIBUTE_MAX_LEN /\ out.max_len = 0
    THEN [out EXCEPT !.max_len = attr.value]
    ELSE out
\* One pass of the loop over the attributes of the vendor data.
CapabilitiesStep(out, attr) ==
    IF attr.type = APF_ATTRIBUTE_VERSION THEN [out EXCEPT !.version = attr.value]
    ELSE IF attr.type = APF_ATTRIBUTE_MAX_LEN THEN [out EXCEPT !.max_len = attr.value]
    ELSE out
RECURSIVE CapabilitiesLoop(_, _)
CapabilitiesLoop(out, attrs) ==
    IF attrs = <<>> THEN out
    ELSE CapabilitiesLoop(CapabilitiesStep(out, Head(attrs)), Tail(attrs))
\* AndroidPktFilterCommand::handleResponse in GET_APF_CAPABILITIES mode: a
\* reply that is no vendor reply, or has no vendor data, is ignored.
handleResponse(out, reply) ==
    IF reply.cmd # NL80211_CMD_VENDOR THEN out
    ELSE IF reply.attrs = <<>> THEN out
    ELSE CapabilitiesLoop([version |-> 0, max_len |-> 0], reply.attrs)

\* A wrapper that maps every failure to success.
NdOffloadResult_Always(ret) == WIFI_SUCCESS
\* wifi_configure_nd_offload: what it returns for the result of
\* requestResponse.
NdOffloadResult(ret) ==
    IF ret # WIFI_SUCCESS /\ ret = 0 - EPERM THEN WIFI_SUCCESS ELSE ret
\* What the API function returns for the result of its command, and what it
\* leaves in the caller's outputs.
ApiResult(api, ret) ==
    IF api = "nd_offload" THEN NdOffloadResult(ret)
    ELSE IF api = "apf_get" THEN WIFI_SUCCESS
    ELSE ret
\* A wrapper that clears the outputs on permission denial only.
ApiOutputs_OnEperm(api, ret, out) ==
    IF api = "apf_get" /\ ret = 0 - EPERM THEN [version |-> 0, max_len |-> 0] ELSE out
ApiOutputs(api, ret, out) ==
    IF api = "apf_get" /\ ret # WIFI_SUCCESS THEN [version |-> 0, max_len |-> 0] ELSE out

\* A message: created, its nested group open, the puts tried and the
\* attributes put, the group closed.
NoMsg == [created |-> FALSE, open |-> FALSE, tried |-> 0, puts |-> 0, ended |-> FALSE]
\* The caller is about to call one of the API functions; net holds the
\* messages handed to requestResponse and the reply that was delivered.
InitRequests ==
    /\ info = InitInfo
    /\ objs = [c \in CmdObjs |->
                [kind |-> NULL, id |-> 0, mRefs |-> 0, state |-> "unborn", cancels |-> 0,
                 handler |-> NULL]]
    /\ net = [sent |-> <<>>, reply |-> [cmd |-> NULL, attrs |-> <<>>]]
    /\ pc = [t \in LoopThreads \cup {Caller} |-> IF t = Caller THEN "req_idle" ELSE "absent"]
    /\ lv = [t \in LoopThreads |-> NoLocals]
    /\ cv = [api |-> NULL, msg |-> NoMsg, result |-> 0, failed_put |-> FALSE,
             rr |-> 0, ret |-> 0, out |-> [version |-> Unset, max_len |-> Unset],
             cmd |-> NullCmd]
    /\ reset_in_progress = 0
    /\ obs = [ub |-> FALSE, crashed |-> FALSE, cb_calls |-> 0, teardowns |-> 0,
              cleanups |-> 0, leak_log |-> <<>>]

\* The API functions that construct their command with new and release it
\* before they return; the others have it on the stack or are methods of a
\* command the client holds.
HeapApis == {"apf_set", "apf_get"}
\* The API function constructs its command and the builder starts.
ReqCall(api) ==
    /\ pc[Caller] = "req_idle"
    /\ IF api \in HeapApis
       THEN /\ objs' = NewCommand(objs, FreshObj, "apf", 0)
            /\ cv' = [cv EXCEPT !.api = api, !.cmd = FreshObj]
       ELSE /\ objs' = objs
            /\ cv' = [cv EXCEPT !.api = api]
    /\ pc' = [pc EXCEPT ![Caller] = "req_create"]
    /\ UNCHANGED <<info, net, lv, reset_in_progress, obs>>
\* request.create / mMsg.create; a builder without attributes returns here.
ReqCreate(ret) ==
    /\ pc[Caller] = "req_create"
    /\ IF ret < 0
       THEN /\ cv' = [cv EXCEPT !.result = CreateFailure(cv.api, ret)]
            /\ pc' = [pc EXCEPT ![Caller] = "req_built"]
       ELSE /\ cv' = [cv EXCEPT !.msg.created = TRUE, !.result = ret]
            /\ pc' = [pc EXCEPT ![Caller] =
                        IF Builders[cv.api].nested THEN "req_attr_start" ELSE "req_built"]
    /\ UNCHANGED <<info, objs, net, lv, reset_in_progress, obs>>
\* attr_start(NL80211_ATTR_VENDOR_DATA)
ReqAttrStart ==
    /\ pc[Caller] = "req_attr_start"
    /\ cv' = [cv EXCEPT !.msg.open = TRUE]
    /\ pc' = [pc EXCEPT ![Caller] = "req_put"]
    /\ UNCHANGED <<info, objs, net, lv, reset_in_progress, obs>>
\* The next put of the builder and the test of its result.
ReqPut(ret) ==
    /\ pc[Caller] = "req_put"
    /\ IF PutFailed(ret)
       THEN /\ cv' = [cv EXCEPT !.result = ret, !.failed_put = TRUE]
            /\ pc' = [pc EXCEPT ![Caller] = "req_built"]
       ELSE /\ cv' = [cv EXCEPT !.result = ret, !.failed_put = @ \/ ret < 0,
                                !.msg.tried = @ + 1,
                                !.msg.puts = IF ret < 0 THEN @ ELSE @ + 1]
            /\ pc' = [pc EXCEPT ![Caller] =
                        IF cv.msg.tried + 1 = Builders[cv.api].puts
                        THEN "req_attr_end" ELSE "req_put"]
    /\ UNCHANGED <<info, objs, net, lv, reset_in_progress, obs>>
\* attr_end(data) and the return of the builder
ReqAttrEnd ==
    /\ pc[Caller] = "req_attr_end"
    /\ cv' = [cv EXCEPT !.msg.open = FALSE, !.msg.ended = TRUE, !.result = WIFI_SUCCESS]
    /\ pc' = [pc EXCEPT ![Caller] = "req_built"]
    /\ UNCHANGED <<info, objs, net, lv, reset_in_progress, obs>>
\* The builder has returned: the message is handed to requestResponse, which
\* delivers the reply to handleResponse and returns, or the builder's error
\* is returned and nothing is sent.
ReqSend(ret, reply) ==
    /\ pc[Caller] = "req_built"
    /\ IF Sends(Builders[cv.api].sender, cv.result)
       THEN /\ net' = [net EXCEPT !.sent = Append(@, cv.msg), !.reply = reply]
            /\ cv' = [cv EXCEPT !.rr = ret,
                                !.out = IF cv.api = "apf_get"
                                        THEN handleResponse(@, reply) ELSE @]
       ELSE /\ net' = net
            /\ cv' = [cv EXCEPT !.rr = cv.result]
    /\ pc' = [pc EXCEPT ![Caller] = "req_sent"]
    /\ UNCHANGED <<info, objs, lv, reset_in_progress, obs>>
\* The API function returns, after cmd->releaseRef() where it constructed
\* the command with new.
ReqReturn ==
    /\ pc[Caller] = "req_sent"
    /\ cv' = [cv EXCEPT !.ret = ApiResult(cv.api, cv.rr),
                        !.out = ApiOutputs(cv.api, cv.rr, @)]
    /\ objs' = IF cv.api \in HeapApis THEN releaseRef(objs, cv.cmd) ELSE objs
    /\ pc' = [pc EXCEPT ![Caller] = "req_returned"]
    /\ UNCHANGED <<info, net, lv, reset_in_progress, obs>>

NextRequests ==
    \/ \E api \in Apis : ReqCall(api)
    \/ \E ret \in PutResults : ReqCreate(ret)
    \/ ReqAttrStart
    \/ \E ret \in PutResults : ReqPut(ret)
    \/ ReqAttrEnd
    \/ \E ret \in RequestResults, reply \in RepliesTo(cv.api) : ReqSend(ret, reply)
    \/ ReqReturn
SpecRequests == InitRequests /\ [][NextRequests]_vars

\* ---------------------------------------------- wifi_get_usable_channels
\* A uint32_t is written as the int that has the same 32 bits: the values
\* from 2^31 on are the negative ones, 2^32 - 1 is -1.
SLSI_UC_ITERFACE_SOFTAP == 2
SLSI_UC_ITERFACE_UNKNOWN == 0 - 1
\* What the NUM_CHANNELS attribute can carry: small counts, INT_MAX, 2^31
\* and 2^32 - 1.
U32Values == {0, 1, 2, 3, 2147483647, (0 - 2147483647) - 1, 0 - 1}
\* The sizes of the caller's buffer, in records.
BufferSizes == {0, 1, 2, 2147483647}
\* iface_mode: no bit, STA, SoftAP, both, and SLSI_UC_ITERFACE_UNKNOWN.
IfaceModes == {0, 1, SLSI_UC_ITERFACE_SOFTAP, 3, SLSI_UC_ITERFACE_UNKNOWN}
\* iface_mode & SLSI_UC_ITERFACE_SOFTAP
HasSoftAp(iface_mode) == (iface_mode \div SLSI_UC_ITERFACE_SOFTAP) % 2 = 1
\* The test that lets the request through.
Supported(iface_mode) ==
    ~(iface_mode = SLSI_UC_ITERFACE_UNKNOWN \/ ~HasSoftAp(iface_mode))

\* a > b after the conversion of both operands to unsigned int
UnsignedGreater(a, b) == IF (a < 0) = (b < 0) THEN a > b ELSE a < 0
\* A limit that compares the count with max_num as signed ints.
Limit_Signed(n, max_num) == IF n > max_num THEN max_num ELSE n
\* if (num_channels_to_copy > mMaxNum) num_channels_to_copy = mMaxNum;
\* with int num_channels_to_copy and uint32_t mMaxNum.
Limit(n, max_num) == IF UnsignedGreater(n, max_num) THEN max_num ELSE n

\* The attributes of a reply's vendor data: the channel count with its
\* value, the channel list, another attribute.
UsableAttrs ==
    [type : {"SLSI_UC_ATTRIBUTE_NUM_CHANNELS"}, value : U32Values]
    \cup [type : {"SLSI_UC_ATTRIBUTE_CHANNEL_LIST", "SLSI_UC_ATTRIBUTE_BAND"}, value : {0}]
UsableReplies ==
    [cmd : {NL80211_CMD_VENDOR, NL80211_CMD_OTHER},
     attrs : UNION {[1..n -> UsableAttrs] : n \in 0..MaxAttrs}]
\* One pass of the loop of GetUsableChannelsCommand::handleResponse. to_copy
\* is num_channels_to_copy; written tells that *mNumChannels was assigned;
\* copied is the largest number of records a memcpy wrote to mChannels,
\* overrun that a memcpy was given a negative count, which as a size_t is
\* more than any buffer holds.
UsableStep(out, attr, max_num) ==
    IF attr.type = "SLSI_UC_ATTRIBUTE_NUM_CHANNELS"
    THEN [out EXCEPT !.to_copy = Limit(attr.value, max_num),
                     !.num_channels = Limit(attr.value, max_num),
                     !.written = TRUE]
    ELSE IF attr.type = "SLSI_UC_ATTRIBUTE_CHANNEL_LIST" /\ out.to_copy # 0
    THEN [out EXCEPT !.copied = IF out.to_copy > @ THEN out.to_copy ELSE @,
                     !.overrun = @ \/ out.to_copy < 0]
    ELSE out
RECURSIVE UsableLoop(_, _, _)
UsableLoop(out, attrs, max_num) ==
    IF attrs = <<>> THEN out
    ELSE UsableLoop(UsableStep(out, Head(attrs), max_num), Tail(attrs), max_num)
\* GetUsableChannelsCommand::handleResponse: a reply that is no vendor reply,
\* or has no vendor data, is ignored; num_channels_to_copy starts at 0.
UsableResponse(out, reply, max_num) ==
    IF reply.cmd # NL80211_CMD_VENDOR \/ reply.attrs = <<>> THEN out
    ELSE UsableLoop([out EXCEPT !.to_copy = 0], reply.attrs, max_num)

\* The caller is about to call wifi_get_usable_channels: cv holds the
\* arguments, the caller's outputs and the result, net the requests sent.
InitUsable ==
    /\ info = InitInfo
    /\ objs = NoObjs
    /\ net = [sent |-> 0]
    /\ pc = [t \in LoopThreads \cup {Caller} |-> IF t = Caller THEN "uc_idle" ELSE "absent"]
    /\ lv = [t \in LoopThreads |-> NoLocals]
    /\ cv = [ihandle_num |-> 0, iface_mode |-> 0, max_num |-> 0, reply |-> NULL,
             out |-> [to_copy |-> 0, num_channels |-> Unset, written |-> FALSE,
                      copied |-> 0, overrun |-> FALSE],
             result |-> 0]
    /\ reset_in_progress = 0
    /\ obs = [ub |-> FALSE, crashed |-> FALSE, cb_calls |-> 0, teardowns |-> 0,
              cleanups |-> 0, leak_log |-> <<>>]
\* wifi_get_usable_channels up to the construction of the command: the two
\* early returns.
UsableCall(ihandle_num, iface_mode, max_num) ==
    /\ pc[Caller] = "uc_idle"
    /\ cv' = [cv EXCEPT !.ihandle_num = ihandle_num, !.iface_mode = iface_mode,
                        !.max_num = max_num,
                        !.result = IF ihandle_num <= 0 THEN WIFI_ERROR_UNINITIALIZED
                                   ELSE IF ~Supported(iface_mode)
                                   THEN WIFI_ERROR_NOT_SUPPORTED ELSE @]
    /\ pc' = [pc EXCEPT ![Caller] =
                IF ihandle_num <= 0 \/ ~Supported(iface_mode)
                THEN "uc_returned" ELSE "uc_request"]
    /\ UNCHANGED <<info, objs, net, lv, reset_in_progress, obs>>
\* command.requestResponse(): create() builds the request; when that did
\* not fail the request is sent, the reply handed to handleResponse and the
\* result of the exchange returned.
UsableRequest(created, ret, reply) ==
    /\ pc[Caller] = "uc_request"
    /\ IF IssueSends(created)
       THEN /\ net' = [net EXCEPT !.sent = @ + 1]
            /\ cv' = [cv EXCEPT !.reply = reply, !.result = ret,
                                !.out = UsableResponse(@, reply, cv.max_num)]
       ELSE /\ net' = net
            /\ cv' = [cv EXCEPT !.result = created]
    /\ pc' = [pc EXCEPT ![Caller] = "uc_returned"]
    /\ UNCHANGED <<info, objs, lv, reset_in_progress, obs>>
NextUsable ==
    \/ \E n \in {0, 1}, mode \in IfaceModes, max_num \in BufferSizes : UsableCall(n, mode, max_num)
    \/ \E created \in PutResults, ret \in RequestResults, reply \in UsableReplies :
          UsableRequest(created, ret, reply)
SpecUsable == InitUsable /\ [][NextUsable]_vars

\* ===================================================================
\* The claims
\* ===================================================================

\* A thread is dispatching into command c: cb_lock has been released after
\* the match and the handler has not yet returned and been released.
Dispatching(t, c) == pc[t] \in {"handler", "release"} /\ lv[t].cb_arg = c

\* C1: from the moment dispatch releases cb_lock until the invoked handler
\* has returned, the command bound to the matched registration is not
\* destroyed and has a reference count of at least 1, whatever the caller
\* thread cancels and releases meanwhile; the scan that takes the reference
\* runs with cb_lock held.
C1_ReferenceSafety ==
    \A t \in LoopThreads :
        /\ pc[t] = "scan" => info.cb_lock = t
        /\ \A c \in CmdObjs :
              Dispatching(t, c) => objs[c].state = "alive" /\ objs[c].mRefs >= 1
\* The handler of a command runs while wifi_cleanup has cancelled that
\* command and released the table's reference: only dispatch's is left.
C1_Witness ==
    \E t \in LoopThreads, c \in CmdObjs :
        /\ pc[t] = "handler" /\ lv[t].cb_arg = c
        /\ objs[c].cancels = 1 /\ objs[c].mRefs = 1
        /\ pc[Caller] = "cl_loop"
\* A thread has invoked the handler of a registration for the datagram it
\* received, and has not finished with it.
Invoked(t) == pc[t] \in {"handler", "release"} /\ lv[t].cb_func # NULL

\* C2: the registration whose handler dispatch invokes has the message type
\* of the received event and, when the event is a vendor event, exactly its
\* vendor id and its vendor subcommand.
C2_Demultiplexing ==
    \A t \in LoopThreads :
        Invoked(t) =>
            /\ lv[t].cbi.nl_cmd = lv[t].msg.cmd
            /\ lv[t].msg.cmd = NL80211_CMD_VENDOR =>
                  /\ lv[t].cbi.vendor_id = lv[t].msg.vendor_id
                  /\ lv[t].cbi.vendor_subcmd = lv[t].msg.subcmd
\* An RSSI report is delivered to the second registration of the table, the
\* first being the one of the same vendor for the restart subcommand.
C2_Witness ==
    \E t \in LoopThreads :
        /\ Invoked(t)
        /\ lv[t].msg = VendorEvent(GOOGLE_OUI, WIFI_RSSI_REPORT_EVENT)
        /\ Len(info.event_cb) >= 2
        /\ info.event_cb[1].vendor_id = GOOGLE_OUI
        /\ info.event_cb[1].vendor_subcmd = WIFI_SUBSYSTEM_RESTART_EVENT
        /\ info.event_cb[2] = lv[t].cbi
\* C3: while a registered handler executes, the thread that dispatches it does
\* not hold cb_lock.
C3_LockNotHeldInHandler ==
    \A t \in LoopThreads : pc[t] = "handler" => info.cb_lock # t
\* A handler is executing and the caller has taken cb_lock meanwhile.
C3_Witness ==
    \E t \in LoopThreads :
        /\ pc[t] = "handler"
        /\ info.cb_lock = Caller
        /\ pc[Caller] = "cl_loop"
        /\ ~obs.ub
\* wifi_cleanup has just been called while thread t waits in poll and the
\* event socket has nothing to read.
StopRequestedWhileBlocked(t) ==
    /\ pc[Caller] = "cl_lock"
    /\ pc[t] = "poll"
    /\ net.evq = <<>>
    /\ ~obs.crashed

\* C4: when wifi_cleanup is called while the event loop waits in poll with
\* no datagram pending, the loop eventually leaves the poll loop and
\* completes teardown, whether or not a datagram arrives afterwards.
C4_StopObservedWithoutData ==
    \A t \in LoopThreads : StopRequestedWhileBlocked(t) ~> pc[t] = "stopped"
\* The loop has stopped after one wifi_cleanup although no datagram ever
\* arrived and no error or hang-up was ever reported on the event socket.
C4_Witness ==
    \E t \in LoopThreads :
        /\ pc[t] = "stopped"
        /\ obs.cleanups = 1
        /\ net.arrived = 0 /\ net.conds = 0 /\ net.ctrl = 0
        /\ obs.cb_calls = 1
        /\ ~obs.ub
\* A call of wifi_cleanup has returned.
CleanupReturned == pc[Caller] = "api" /\ obs.cleanups >= 1
\* Thread t runs the event loop and has not begun teardown.
InPollLoop(t) == pc[t] \in {"poll", "lock", "scan", "handler", "release", "check"}

LeftPollLoop(t) == pc[t] \in {"teardown", "td_cb", "td_free", "stopped"}
\* wifi_cleanup is past its cancel loop.
CancelPhaseDone == pc[Caller] \in {"cl_signal", "cl_write"} \/ CleanupReturned

\* C6: once wifi_cleanup has been called and no hang-up is reported on the
\* event socket, the shutdown steps are ordered: every outstanding command is
\* cancelled before the loop is signalled, the loop leaves the poll loop only
\* after clean_up is set and the sentinel written, the sockets are released
\* only after the loop has left the poll loop, and the completion callback
\* is invoked only after the sockets are released.
C6_ShutdownOrdering ==
    (obs.cleanups >= 1 /\ net.cond # "hup") =>
        /\ CancelPhaseDone =>
              \A i \in 1..Len(info.cmd) : objs[info.cmd[i].cmd].cancels >= 1
        /\ info.clean_up => CancelPhaseDone
        /\ \A t \in LoopThreads : LeftPollLoop(t) => CleanupReturned
        /\ info.cmd_sock = NULL => \A t \in LoopThreads : ~InPollLoop(t)
        /\ obs.cb_calls >= 1 => info.cmd_sock = NULL
\* wifi_cleanup has returned and no thread has called wifi_event_loop.
CleanedUpNeverStarted ==
    CleanupReturned /\ \A t \in LoopThreads : pc[t] \in {"idle", "absent"}
\* internal_cleaned_up_handler has released the sockets and invoked the
\* completion callback once.
TornDownOnce == info.cmd_sock = NULL /\ obs.cb_calls = 1

\* C7, for a session whose event loop was not started: after wifi_cleanup the
\* sockets are eventually released and the completion callback is
\* eventually invoked, exactly once.
C7_CleanupCompletes == CleanedUpNeverStarted ~> TornDownOnce
\* A step of the caller inside its second call of wifi_cleanup, the call
\* itself included.
SecondCleanupStep == obs'.cleanups = 2 /\ pc'[Caller] # pc[Caller]

\* C8: a second wifi_cleanup is safe and has no effect: none of its steps
\* uses released session state or a destroyed command, cancels a command
\* that was cancelled before, or makes teardown or the completion callback
\* run again.
C8_StopIdempotent ==
    [][SecondCleanupStep =>
          /\ obs'.ub = obs.ub
          /\ \A c \in CmdObjs : objs'[c].cancels <= 1
          /\ obs'.cb_calls = obs.cb_calls
          /\ obs'.teardowns = obs.teardowns]_vars
\* Thread t calls wifi_event_loop in this step.
CallsEventLoop(t) == pc[t] = "idle" /\ pc'[t] # "idle"

\* C9: a call of wifi_event_loop made while in_event_loop is true returns at
\* once and changes nothing: not in_event_loop, clean_up or the sockets, no
\* datagram is received, no handler called, no teardown run; and a call that
\* has returned does nothing afterwards.
C9_StartIdempotent ==
    [][\A t \in LoopThreads :
          /\ (CallsEventLoop(t) /\ info.in_event_loop /\ ~info.freed) =>
                /\ pc'[t] = "returned"
                /\ UNCHANGED <<info, net, lv, objs, obs, reset_in_progress>>
          /\ pc[t] = "returned" => pc'[t] = "returned"]_vars
\* One thread's call has returned while the other thread is in the poll loop.
C9_Witness ==
    \E t, u \in LoopThreads :
        /\ pc[t] = "returned"
        /\ InPollLoop(u)
        /\ info.in_event_loop /\ ~info.clean_up /\ info.cmd_sock # NULL
        /\ ~obs.ub

\* The threads that have entered the poll loop of wifi_event_loop.
EnteredPollLoop == {t \in LoopThreads : InPollLoop(t) \/ LeftPollLoop(t)}

\* C10: of two threads that call wifi_event_loop, at most one enters the poll
\* loop, and internal_cleaned_up_handler runs at most once.
C10_StartedOnce == Cardinality(EnteredPollLoop) <= 1 /\ obs.teardowns <= 1
\* The references dispatch holds on command c.
DispatchRefs(c) == Cardinality({t \in LoopThreads : Dispatching(t, c)})

\* C11: wifi_cleanup cancels no command twice, and when it is past its cancel
\* loop, so before it writes the sentinel, every command of the table has
\* been cancelled once and has lost the reference the table held: the
\* references left on it are those of dispatches in progress.
C11_CleanupCancelsAll ==
    /\ \A c \in CmdObjs : objs[c].cancels <= 1
    /\ CancelPhaseDone =>
          \A i \in 1..Len(info.cmd) :
              /\ objs[info.cmd[i].cmd].cancels = 1
              /\ objs[info.cmd[i].cmd].mRefs = DispatchRefs(info.cmd[i].cmd)
\* wifi_cleanup is about to write the sentinel with two commands in the
\* table, both cancelled, one of them still referenced by a dispatch.
C11_Witness ==
    /\ pc[Caller] = "cl_write"
    /\ Len(info.cmd) = 2
    /\ \E i \in 1..2 : objs[info.cmd[i].cmd].mRefs = 1
    /\ \E i \in 1..2 : objs[info.cmd[i].cmd].state = "destroyed"
    /\ net.ctrl = 0
    /\ ~obs.ub
\* wifi_cleanup has logged the leaks and not yet returned.
LeaksLogged == pc[Caller] \in {"cl_signal", "cl_write"}
\* The 'Leaked command' entries logged for command c.
LeakEntries(c) == {j \in 1..Len(obs.leak_log) : obs.leak_log[j] = c}

\* C12: once wifi_cleanup has logged the leaks, every registration that
\* still references a command has exactly one 'Leaked command' entry for
\* that command, and no entry stands for a registration without a command.
C12_LeakLogging ==
    LeaksLogged =>
        /\ \A i \in 1..Len(info.event_cb) :
              info.event_cb[i].cb_arg # NullCmd =>
                  Cardinality(LeakEntries(info.event_cb[i].cb_arg)) = 1
        /\ LeakEntries(NullCmd) = {}
\* C13: the thread that calls cmd->cancel() in wifi_cleanup, and the thread
\* that calls a handler in dispatch, does not hold cb_lock at the call.
C13_LockNotHeldAcrossCalls ==
    /\ pc[Caller] = "cl_cancel" => info.cb_lock # Caller
    /\ \A t \in LoopThreads : pc[t] = "handler" => info.cb_lock # t
\* wifi_cleanup is at cmd->cancel() while the loop thread scans the
\* registrations under cb_lock.
C13_Witness ==
    /\ pc[Caller] = "cl_cancel"
    /\ \E t \in LoopThreads : pc[t] = "scan" /\ info.cb_lock = t
    /\ ~obs.ub
\* Thread t receives in this step a datagram that does not parse.
ReceivesMalformed(t) ==
    pc[t] = "poll" /\ pc'[t] # "poll" /\ PollResult = "POLLIN" /\ ~Head(net.evq).ok
\* Thread t ends in this step a scan that found no registration.
ScanFindsNone(t) ==
    pc[t] = "scan" /\ pc'[t] # "scan" /\ MatchIndex(info.event_cb, lv[t].msg) = 0

\* C14: a datagram that does not parse, and one that no registration
\* matches, is dropped: no handler is called, no command referenced, cb_lock
\* is free afterwards, and the loop goes back to poll unless wifi_cleanup
\* has set clean_up.
C14_BadDatagramDropped ==
    [][\A t \in LoopThreads :
          /\ ReceivesMalformed(t) =>
                pc'[t] = "check" /\ UNCHANGED <<info, objs, reset_in_progress>>
          /\ ScanFindsNone(t) =>
                /\ pc'[t] = "check" /\ info'.cb_lock = NoThread
                /\ UNCHANGED <<objs, reset_in_progress>>
          /\ (pc[t] = "check" /\ pc'[t] # "check" /\ ~info.clean_up) =>
                pc'[t] = "poll"]_vars
\* The loop waits in poll again after it dropped a vendor event of a vendor
\* nobody registered for, although registrations exist.
C14_Witness ==
    \E t \in LoopThreads :
        /\ pc[t] = "poll"
        /\ lv[t].msg = VendorEvent(OTHER_OUI, WIFI_RSSI_REPORT_EVENT)
        /\ Len(info.event_cb) >= 1
        /\ info.event_cb[1].vendor_subcmd = WIFI_RSSI_REPORT_EVENT
        /\ info.cb_lock = NoThread
        /\ ~info.clean_up /\ ~obs.ub
\* Thread t comes out of poll in this step with result r.
PollReturns(t, r) == pc[t] = "poll" /\ pc'[t] # "poll" /\ PollResult = r

\* C15: after a failed poll or POLLERR on the event socket the loop stays in
\* its poll loop with the session as it was; after POLLHUP it leaves the
\* loop for teardown, whether or not wifi_cleanup was called.
C15_ErrorVersusHangup ==
    [][\A t \in LoopThreads :
          /\ (PollReturns(t, "fail") \/ PollReturns(t, "POLLERR")) =>
                /\ pc'[t] = "check"
                /\ UNCHANGED <<info, objs>>
                /\ obs'.teardowns = obs.teardowns
          /\ PollReturns(t, "POLLHUP") => pc'[t] = "teardown"
          /\ (pc[t] = "check" /\ pc'[t] # "check") =>
                pc'[t] = IF info.clean_up THEN "teardown" ELSE "poll"
          /\ (pc[t] = "teardown" /\ pc'[t] # "teardown") =>
                obs'.teardowns = obs.teardowns + 1]_vars
\* After a hang-up the loop has released the sockets although wifi_cleanup
\* was never called.
C15_Witness ==
    /\ net.cond = "hup"
    /\ obs.cleanups = 0
    /\ obs.teardowns = 1
    /\ info.cmd_sock = NULL
    /\ ~info.clean_up
\* Registration i of the table is the first that matches datagram msg.
FirstMatch(i, msg) ==
    /\ i \in 1..Len(info.event_cb)
    /\ Matches(info.event_cb[i], msg)
    /\ \A j \in 1..(i - 1) : ~Matches(info.event_cb[j], msg)

\* C16: a scan starts only for a datagram just received; the registration
\* it picks is the first of the table that matches; its handler is called
\* only on the way out of the scan; and after the call dispatch releases and
\* returns to the loop without scanning on.
C16_FirstMatchOnly ==
    [][\A t \in LoopThreads :
          /\ (pc'[t] = "lock" /\ pc[t] # "lock") =>
                pc[t] = "poll" /\ Len(net'.evq) = Len(net.evq) - 1
          /\ (pc'[t] = "scan" /\ pc[t] # "scan") => pc[t] = "lock"
          /\ (pc'[t] \in {"handler", "release"} /\ pc[t] = "scan") =>
                \E i \in 1..Len(info.event_cb) :
                    FirstMatch(i, lv[t].msg) /\ lv'[t].cbi = info.event_cb[i]
          /\ (pc'[t] = "handler" /\ pc[t] # "handler") => pc[t] = "scan"
          /\ (pc[t] = "handler" /\ pc'[t] # "handler") => pc'[t] = "release"
          /\ (pc[t] = "release" /\ pc'[t] # "release") => pc'[t] = "check"]_vars
\* The handler of the first of two registrations of one signature runs for
\* an event of that signature.
C16_Witness ==
    \E t \in LoopThreads :
        /\ pc[t] = "handler"
        /\ Len(info.event_cb) = 2
        /\ Matches(info.event_cb[1], lv[t].msg)
        /\ Matches(info.event_cb[2], lv[t].msg)
        /\ info.event_cb[1].cb_func # info.event_cb[2].cb_func
        /\ lv[t].cb_func = info.event_cb[1].cb_func
DisableRequests(os, c) == IF os[c].kind = "rssi" THEN os[c].cancels ELSE 0
\* cancel() is called in this step on command c, which is alive and was
\* cancelled before.
CancelledAgain(c) ==
    /\ objs[c].state = "alive"
    /\ objs[c].cancels >= 1
    /\ objs'[c].cancels = objs[c].cancels + 1

\* C18: a cancel() of a command that was cancelled before has no effect: it
\* sends no request to the driver and leaves the event table, the command
\* table and the reset-in-progress flag as they were.
C18_CancelIdempotent ==
    [][\A c \in CmdObjs :
          CancelledAgain(c) =>
              /\ DisableRequests(objs', c) = DisableRequests(objs, c)
              /\ info'.event_cb = info.event_cb
              /\ info'.cmd = info.cmd
              /\ reset_in_progress' = reset_in_progress]_vars
\* The table holds a registration for (GOOGLE_OUI, WIFI_RSSI_REPORT_EVENT).
RssiRegistered(cbs) ==
    \E i \in 1..Len(cbs) :
        SameSignature(cbs[i], NL80211_CMD_VENDOR, GOOGLE_OUI, WIFI_RSSI_REPORT_EVENT)
\* SetRSSIMonitorCommand::start returns in this step, with a failure when
\* the caller then unregisters the command.
RssiStartReturns == pc[Caller] = "rssi_start" /\ pc'[Caller] = "api"
RssiStartFailed == RssiStartReturns /\ Len(info'.cmd) < Len(info.cmd)
\* cancel() of an RSSI monitor returns in this step.
RssiCancelReturns ==
    /\ pc[Caller] = "cl_cancel" /\ pc'[Caller] = "cl_relock"
    /\ objs[cv.cmd].kind = "rssi"

\* C19: the RSSI registration appears only in a start() that succeeded, a
\* start() that failed leaves the event table as it was, and when cancel()
\* of an RSSI monitor returns the table holds no RSSI registration,
\* whatever the reply to the disable request.
C19_RssiSubscriptionLifecycle ==
    [][/\ (RssiRegistered(info'.event_cb) /\ ~RssiRegistered(info.event_cb)) =>
              RssiStartReturns /\ ~RssiStartFailed
       /\ RssiStartFailed => info'.event_cb = info.event_cb
       /\ RssiCancelReturns => ~RssiRegistered(info'.event_cb)]_vars
\* cancel() of an RSSI monitor has returned and the table holds no RSSI
\* registration, while the handler of the registration this monitor made is
\* still running.
C19_Witness ==
    /\ pc[Caller] = "cl_relock"
    /\ objs[cv.cmd].kind = "rssi" /\ objs[cv.cmd].cancels = 1
    /\ ~RssiRegistered(info.event_cb)
    /\ \E t \in LoopThreads : pc[t] = "handler" /\ lv[t].cb_arg = cv.cmd
    /\ ~obs.ub
\* wifi_start_rssi_monitoring has put its command in the command table and
\* cmd->start() has not returned: the caller is in requestResponse.
RssiStartBlocked == pc[Caller] = "rssi_start"
\* Thread t finishes the scan for a received RSSI report event.
ScansRssiReport(t) ==
    /\ pc[t] = "scan" /\ pc'[t] # "scan"
    /\ lv[t].msg.cmd = NL80211_CMD_VENDOR
    /\ lv[t].msg.vendor_id = GOOGLE_OUI
    /\ lv[t].msg.subcmd = WIFI_RSSI_REPORT_EVENT

\* C20: an RSSI report event that dispatch scans for while the caller of
\* wifi_start_rssi_monitoring is blocked in start() is handed to the event
\* handler of the command being started.
C20_DeliveredWhileBlocked ==
    [][\A t \in LoopThreads :
          (RssiStartBlocked /\ ScansRssiReport(t)) =>
              /\ pc'[t] = "handler"
              /\ lv'[t].cb_arg = cv.cmd]_vars
\* Thread t returns from the handleEvent of a restart command in this step.
RestartEventHandled(t) ==
    pc[t] = "handler" /\ pc'[t] # "handler" /\ RestartHandler(lv[t].cbi)
\* ... and handleEvent called on_subsystem_restart.
RestartCallbackCalled(t) ==
    /\ RestartEventHandled(t)
    /\ CallsRestartCallback(lv[t].msg, objs[lv[t].cb_arg].handler)

\* C21: while the reset-in-progress flag is set, a subsystem-restart event
\* that is delivered does not call on_subsystem_restart again.
C21_RestartHandledOnce ==
    [][\A t \in LoopThreads :
          (RestartEventHandled(t) /\ reset_in_progress = 1) =>
              ~RestartCallbackCalled(t)]_vars
\* SetSubsystemRestartHandlerCommand::start returns in this step.
RestartStartReturns == pc[Caller] = "restart_start" /\ pc'[Caller] # "restart_start"
\* SetSubsystemRestartHandlerCommand::cancel returns in this step.
RestartCancelReturns ==
    /\ pc[Caller] = "cl_cancel" /\ pc'[Caller] # "cl_cancel"
    /\ objs[cv.cmd].kind = "restart"
RestartOperation ==
    \/ RestartStartReturns
    \/ RestartCancelReturns
    \/ \E t \in LoopThreads : RestartEventHandled(t)

\* C22 as stated: the flag is set exactly when the latest operation was a
\* handleEvent that called the callback, so that start(), cancel() and a
\* handleEvent without data or without callback all leave it clear.
C22_FlagTracksLastOperation ==
    [][/\ (RestartStartReturns \/ RestartCancelReturns) => reset_in_progress' = 0
       /\ \A t \in LoopThreads :
             RestartEventHandled(t) =>
                 reset_in_progress' = IF RestartCallbackCalled(t) THEN 1 ELSE 0]_vars
\* C22, amended: start() and cancel() clear the flag, a handleEvent that
\* carries vendor data and finds the callback set sets it, and every other
\* handleEvent, like every other step, leaves it as it was: the flag is set
\* exactly when such a handleEvent happened since the latest start() or
\* cancel().
C22_FlagLifecycle ==
    [][/\ (RestartStartReturns \/ RestartCancelReturns) => reset_in_progress' = 0
       /\ \A t \in LoopThreads :
             RestartEventHandled(t) =>
                 reset_in_progress' = IF RestartCallbackCalled(t) THEN 1
                                      ELSE reset_in_progress
       /\ ~RestartOperation => reset_in_progress' = reset_in_progress]_vars
\* A restart event without vendor data has been handled and the flag that
\* an earlier restart event set is still set.
C22_Witness ==
    \E t \in LoopThreads :
        /\ pc[t] = "release"
        /\ RestartHandler(lv[t].cbi)
        /\ ~lv[t].msg.data
        /\ objs[lv[t].cb_arg].handler # NULL
        /\ reset_in_progress = 1
        /\ ~obs.ub
\* wifi_initialize has returned, with this result.
InitializeReturned(result) == pc[Caller] = "init_returned" /\ cv.result = result
AllGroups == {Groups[i] : i \in 1..Len(Groups)}

\* C23: when wifi_initialize returns WIFI_SUCCESS the event socket is a
\* member of the scan, mlme, regulatory and vendor groups.
C23_SuccessJoinsAllGroups ==
    InitializeReturned(WIFI_SUCCESS) => net.members = AllGroups

\* The value pid & 0x3FFFFF plus port * 2^22 as a uint32_t.
PortValue(pid, port) ==
    [hi |-> port * 64 + (MaskedPid(pid) \div Half), lo |-> MaskedPid(pid) % Half,
     ovf |-> FALSE]
PortsOf(pid) ==
    {LocalPort(pid, WIFI_HAL_CMD_SOCK_PORT), LocalPort(pid, WIFI_HAL_EVENT_SOCK_PORT)}
\* C25: the local ports the two netlink sockets are given are
\* (pid & 0x3FFFFF) + (644 << 22) and (pid & 0x3FFFFF) + (645 << 22), computed
\* without losing a bit of the 32, they differ, and a process whose pid
\* differs in the low 22 bits has neither of them.
C25_LocalPorts ==
    /\ net.cmd_port # NoPort =>
          net.cmd_port = PortValue(net.pid, WIFI_HAL_CMD_SOCK_PORT)
    /\ net.event_port # NoPort =>
          /\ net.event_port = PortValue(net.pid, WIFI_HAL_EVENT_SOCK_PORT)
          /\ net.event_port # net.cmd_port
    /\ \A q \in Pids :
          MaskedPid(q) # MaskedPid(net.pid) =>
              PortsOf(q) \cap {net.cmd_port, net.event_port} = {}
\* Both sockets of the process with the largest pid have their ports.
C25_Witness ==
    /\ net.pid = 2147483647
    /\ "cmd_sock" \in net.held /\ "event_sock" \in net.held
    /\ net.cmd_port # NoPort /\ net.event_port # NoPort

\* C27: once the control socket pair, the command socket, the event socket
\* or the resolution of the nl80211 family has failed, wifi_initialize has
\* returned an error and the output handle is not written.
C27_FatalFailures ==
    net.failed \cap {"socketpair", "cmd_sock", "event_sock", "family"} # {} =>
        /\ InitializeReturned(WIFI_ERROR_UNKNOWN)
        /\ cv.handle = NULL
\* The family could not be resolved, after everything before it succeeded.
C27_Witness ==
    /\ net.failed = {"family"}
    /\ InitializeReturned(WIFI_ERROR_UNKNOWN)
    /\ cv.handle = NULL
    /\ "cleanup_socks" \in net.held
\* An API function has returned.
ApiReturned(api) == pc[Caller] = "req_returned" /\ cv.api = api

\* C24: wifi_configure_nd_offload returns WIFI_SUCCESS when requestResponse
\* returned success or -EPERM, and otherwise what requestResponse returned.
C24_NdOffloadMapping ==
    ApiReturned("nd_offload") =>
        cv.ret = IF cv.rr \in {WIFI_SUCCESS, 0 - EPERM} THEN WIFI_SUCCESS ELSE cv.rr
\* The request was sent and refused with -EPERM, and the call returned
\* success.
C24_Witness ==
    /\ ApiReturned("nd_offload")
    /\ Len(net.sent) = 1 /\ cv.rr = 0 - EPERM /\ cv.ret = WIFI_SUCCESS

\* The indices of the attributes of one type, and the value of the last of
\* them, 0 when there is none.
LastValue(attrs, type) ==
    LET I == {i \in 1..Len(attrs) : attrs[i].type = type} IN
      IF I = {} THEN 0 ELSE attrs[CHOOSE i \in I : \A j \in I : j <= i].value
\* handleResponse was given a vendor reply with vendor data.
DecodedReply ==
    /\ pc[Caller] = "req_sent" /\ cv.api = "apf_get"
    /\ Len(net.sent) = 1
    /\ net.reply.cmd = NL80211_CMD_VENDOR /\ net.reply.attrs # <<>>
\* C26: for a vendor reply with a non-empty attribute sequence the decoded
\* version is the value of the last VERSION attribute and max_len that of
\* the last MAX_LEN attribute, 0 when there is none; other attributes
\* change neither.
C26_CapabilitiesDecoding ==
    DecodedReply =>
        /\ cv.out.version = LastValue(net.reply.attrs, APF_ATTRIBUTE_VERSION)
        /\ cv.out.max_len = LastValue(net.reply.attrs, APF_ATTRIBUTE_MAX_LEN)
\* The reply carries two VERSION attributes with different values and no
\* MAX_LEN.
C26_Witness ==
    /\ DecodedReply
    /\ Len(net.reply.attrs) = 2
    /\ \A i \in 1..2 : net.reply.attrs[i].type = APF_ATTRIBUTE_VERSION
    /\ net.reply.attrs[1].value = 3 /\ net.reply.attrs[2].value = 2048
    /\ cv.out = [version |-> 2048, max_len |-> 0]

\* C28: a message handed to requestResponse was created and has no open
\* nested group, and it carries every attribute of its builder; once a put
\* has failed the builder's result is an error and nothing is sent.
C28_NestedGroupsClosed ==
    /\ \A i \in 1..Len(net.sent) :
          /\ net.sent[i].created /\ ~net.sent[i].open
          /\ net.sent[i].puts = Builders[cv.api].puts
          /\ Builders[cv.api].nested => net.sent[i].ended
    /\ cv.failed_put => (cv.result < 0 /\ cv.msg.open /\ net.sent = <<>>)
\* The third put of the RSSI monitor request failed and the call has
\* returned the error without sending.
C28_Witness ==
    /\ ApiReturned("rssi_start")
    /\ cv.failed_put /\ cv.msg.puts = 2 /\ cv.msg.open
    /\ net.sent = <<>> /\ cv.ret < 0
\* The caller is inside wifi_cleanup, between its first statement and its
\* return.
InCleanup ==
    pc[Caller] \in {"cl_lock", "cl_loop", "cl_cancel", "cl_relock", "cl_signal", "cl_write"}

\* C29: while wifi_cleanup still has a statement to execute, the write of
\* the sentinel included, the loop thread has not closed the control sockets
\* and not freed the session (no hang-up being reported on the event
\* socket, which ends the loop without wifi_cleanup).
C29_CleanupBeforeTeardown ==
    (InCleanup /\ net.cond # "hup") =>
        /\ ~info.freed
        /\ info.cleanup_socks = "open"

\* C30: a thread that has reached internal_cleaned_up_handler finds the
\* cleaned_up_handler that wifi_cleanup stored, and calls no null pointer.
C30_HandlerSetAtTeardown ==
    \A t \in LoopThreads :
        /\ pc[t] = "teardown" => info.cleaned_up_handler # NULL
        /\ pc[t] = "td_cb" => lv[t].cleaned_up_handler # NULL

\* C31: the cancel loop of wifi_cleanup terminates. Whatever the command
\* table holds, a wifi_cleanup that has entered the loop
\* while (info->num_cmd > bad_commands) leaves it, releases cb_lock and writes
\* the stop sentinel.
InCancelLoop == pc[Caller] \in {"cl_loop", "cl_cancel", "cl_relock"}
SentinelWritten == pc[Caller] = "api" /\ info.cb_lock # Caller /\ net.ctrl > 0
C31_CancelLoopTerminates == InCancelLoop ~> SentinelWritten

\* C32: lock balance. A thread owns cb_lock only between the lock and the
\* unlock of internal_valid_message_handler (while it scans the
\* registrations) or of wifi_cleanup (at the test of the cancel loop); at
\* every unlock the unlocking thread is the owner; and no thread owns it
\* once the function has returned, whichever path it took.
HoldsLock(t) == info.cb_lock = t
AtUnlock(t) == IF t = Caller THEN pc[t] = "cl_loop" ELSE pc[t] = "scan"
C32_LockBalance ==
    \A t \in LoopThreads \cup {Caller} : HoldsLock(t) <=> AtUnlock(t)
\* A dispatch that matched a registration bound to a command has released
\* the lock and is back from the handler, and wifi_cleanup has released it
\* too and returned.
C32_Witness ==
    /\ \E t \in LoopThreads :
          pc[t] = "release" /\ lv[t].cb_arg # NullCmd /\ info.cb_lock = NoThread
    /\ CleanupReturned

\* C33: initialization failure releases what it acquired. When
\* wifi_initialize returns WIFI_ERROR_UNKNOWN the process holds none of the
\* resources the call acquired: the session allocation, the control socket
\* pair, the command, event and ioctl sockets, the registry tables.
C33_FailureReleasesAll ==
    InitializeReturned(WIFI_ERROR_UNKNOWN) => net.held = {}

\* wifi_stop_rssi_monitoring is called in this step with this id.
StopCalled(id) ==
    /\ pc[Caller] = "api"
    /\ pc'[Caller] \in {"stop_cancel", "stop_delegate"}
    /\ cv'.id = id
\* The wildcard stop returns in this step.
WildcardStopReturns == pc[Caller] = "stop_cancel" /\ pc'[Caller] = "api"
\* The registrations of a table for other signatures than the RSSI report.
OtherThanRssi(cbs) ==
    SelectSeq(cbs, LAMBDA cbi :
        ~SameSignature(cbi, NL80211_CMD_VENDOR, GOOGLE_OUI, WIFI_RSSI_REPORT_EVENT))

\* C34: wildcard stop of RSSI monitoring. Called with id -1,
\* wifi_stop_rssi_monitoring constructs a temporary command and looks up
\* nothing; when it returns the result is WIFI_SUCCESS, the command table
\* and every command in it are as they were, the temporary command has
\* been cancelled once and destroyed by the release of its one reference,
\* and the event table has lost its registration for
\* (GOOGLE_OUI, WIFI_RSSI_REPORT_EVENT), whichever command it was bound to,
\* and nothing else. Called with another id it constructs no command and
\* goes to wifi_cancel_cmd.
C34_WildcardStop ==
    [][/\ \A id \in StopIds :
            StopCalled(id) =>
                /\ info' = info
                /\ IF id = 0 - 1
                   THEN /\ pc'[Caller] = "stop_cancel"
                        /\ objs[cv'.cmd].state = "unborn"
                        /\ objs'[cv'.cmd].state = "alive"
                        /\ objs'[cv'.cmd].mRefs = 1
                        /\ \A c \in CmdObjs \ {cv'.cmd} : objs'[c] = objs[c]
                   ELSE /\ pc'[Caller] = "stop_delegate"
                        /\ objs' = objs
       /\ WildcardStopReturns =>
            /\ cv'.result = WIFI_SUCCESS
            /\ info'.cmd = info.cmd
            /\ \A c \in CmdObjs \ {cv.cmd} : objs'[c] = objs[c]
            /\ objs[cv.cmd].mRefs = 1 /\ objs[cv.cmd].cancels = 0
            /\ objs'[cv.cmd].state = "destroyed" /\ objs'[cv.cmd].cancels = 1
            /\ ~RssiRegistered(info'.event_cb)
            /\ info'.event_cb = OtherThanRssi(info.event_cb)
            /\ [info' EXCEPT !.event_cb = info.event_cb] = info]_vars
\* A wildcard stop has returned while a monitor started with success is
\* still in the command table: the temporary command is destroyed, the
\* monitor is alive and was not cancelled, and its registration is gone.
C34_Witness ==
    /\ pc[Caller] = "api"
    /\ \E c \in CmdObjs : objs[c].id = 0 - 1 /\ objs[c].state = "destroyed"
    /\ \E i \in 1..Len(info.cmd) :
          /\ objs[info.cmd[i].cmd].kind = "rssi"
          /\ objs[info.cmd[i].cmd].state = "alive"
          /\ objs[info.cmd[i].cmd].cancels = 0
    /\ ~RssiRegistered(info.event_cb)

\* C35: wifi_get_packet_filter_capabilities returns WIFI_SUCCESS whatever
\* its command's start() returned; when start() did not return WIFI_SUCCESS,
\* for permission denial or any other reason, *version and *max_len are 0 on
\* return; and the command constructed by the call holds its one reference
\* until the function releases it, once, before it returns.
C35_CapabilitiesAlwaysSucceeds ==
    /\ ApiReturned("apf_get") =>
          /\ cv.ret = WIFI_SUCCESS
          /\ cv.rr # WIFI_SUCCESS => cv.out = [version |-> 0, max_len |-> 0]
          /\ objs[cv.cmd].state = "destroyed" /\ objs[cv.cmd].mRefs = 0
    /\ (cv.api = "apf_get" /\ ~ApiReturned("apf_get")) =>
          objs[cv.cmd].state = "alive" /\ objs[cv.cmd].mRefs = 1
\* The request was sent, a reply with a version was decoded, and the request
\* failed with an error other than permission denial.
C35_Witness ==
    /\ ApiReturned("apf_get")
    /\ cv.rr = 0 - ENOMEM
    /\ Len(net.sent) = 1
    /\ \E i \in 1..Len(net.reply.attrs) :
          net.reply.attrs[i].type = APF_ATTRIBUTE_VERSION /\ net.reply.attrs[i].value > 0
    /\ net.reply.cmd = NL80211_CMD_VENDOR
    /\ cv.out = [version |-> 0, max_len |-> 0]

\* wifi_get_usable_channels has returned.
UsableReturned == pc[Caller] = "uc_returned"
\* The index of the first attribute of the type in the reply, 0 without one.
FirstOfType(attrs, type) == FirstIndex({i \in 1..Len(attrs) : attrs[i].type = type})

====
